---- MODULE Spec2Model ----
(***************************************************************************)
(* Model of hyperfleet-credential-provider: the mint-token command, the    *)
(* per-cloud token generators and validators, the exec-plugin encoder, the *)
(* EKS bearer-token codec and the credential loader.                       *)
(*                                                                         *)
(* Strings that the program inspects byte by byte (cluster names, access   *)
(* tokens, URLs, JSON text) are sequences of byte values 0..255.  Instants *)
(* are integers counted in ticks of 1/TicksPerSecond second.               *)
(***************************************************************************)
EXTENDS Integers, Sequences, FiniteSets, TLC

\* ------------------------------------------------------------------ bounds

\* Resolution of the clock: ticks per second (sub-second instants exist).
TicksPerSecond == 2
\* How many times the clock may advance during one run.
MaxTicks == 2
\* Longest cluster name enumerated for the token codec.
MaxClusterLen == 2
\* Largest initial clock value / expiry enumerated for stand-alone calls.
MaxInstant == 4

\* ------------------------------------------------------------ byte strings

RECURSIVE Concat(_)
\* The concatenation of a sequence of byte strings (halving, so that long
\* sequences need little depth).
Concat(ss) ==
    IF Len(ss) = 0 THEN <<>>
    ELSE IF Len(ss) = 1 THEN ss[1]
    ELSE LET h == Len(ss) \div 2
         IN  Concat(SubSeq(ss, 1, h)) \o Concat(SubSeq(ss, h + 1, Len(ss)))

\* The least element of a non-empty set of integers.
Min(S) == CHOOSE x \in S : \A y \in S : x <= y

\* Position of the first byte of s from position i on that lies in set, or
\* Len(s) + 1.
IndexAny(s, i, set) == Min({j \in i..Len(s) : s[j] \in set} \cup {Len(s) + 1})

\* strings.HasPrefix
HasPrefix(s, prefix) ==
    /\ Len(s) >= Len(prefix)
    /\ SubSeq(s, 1, Len(prefix)) = prefix

\* strings.TrimPrefix
TrimPrefix(s, prefix) ==
    IF HasPrefix(s, prefix) THEN SubSeq(s, Len(prefix) + 1, Len(s)) ELSE s

\* All byte strings over alphabet of length at most n.
RECURSIVE StringsUpTo(_, _)
StringsUpTo(alphabet, n) ==
    IF n = 0 THEN {<<>>}
    ELSE LET shorter == StringsUpTo(alphabet, n - 1)
         IN  shorter \cup {Append(s, b) : s \in shorter, b \in alphabet}

\* -------------------------------------------------- encoding/json (strings)

\* Lower-case hexadecimal digit of d in 0..15, as a byte.
HexDigit(d) == IF d < 10 THEN 48 + d ELSE 87 + d

\* Value of the hexadecimal digit c, or -1.
HexVal(c) ==
    IF c >= 48 /\ c <= 57 THEN c - 48
    ELSE IF c >= 97 /\ c <= 102 THEN c - 87
    ELSE IF c >= 65 /\ c <= 70 THEN c - 55
    ELSE -1

\* json.Marshal of one byte of a string (HTML escaping on, the default):
\* quote and backslash are backslash-escaped, control characters and < > &
\* become \u00XX, a byte that is not valid UTF-8 becomes the escape of U+FFFD.
EscapeByte(b) ==
    CASE b = 34  -> <<92, 34>>
      [] b = 92  -> <<92, 92>>
      [] b = 8   -> <<92, 98>>
      [] b = 12  -> <<92, 102>>
      [] b = 10  -> <<92, 110>>
      [] b = 13  -> <<92, 114>>
      [] b = 9   -> <<92, 116>>
      [] b \in {38, 60, 62} \/ (b < 32 /\ b \notin {8, 9, 10, 12, 13})
                 -> <<92, 117, 48, 48, HexDigit(b \div 16), HexDigit(b % 16)>>
      [] b >= 128 -> <<92, 117, 102, 102, 102, 100>>
      [] OTHER   -> <<b>>

EscapeString(s) == Concat([i \in 1..Len(s) |-> EscapeByte(s[i])])

\* A JSON string literal.
MarshalString(s) == <<34>> \o EscapeString(s) \o <<34>>

\* UTF-8 encoding of a code point of the basic multilingual plane.
Utf8(cp) ==
    IF cp < 128 THEN <<cp>>
    ELSE IF cp < 2048 THEN <<192 + (cp \div 64), 128 + (cp % 64)>>
    ELSE <<224 + (cp \div 4096), 128 + ((cp \div 64) % 64), 128 + (cp % 64)>>

\* ------------------------------------------------------------------ base64

\* The URL-safe alphabet: A-Z a-z 0-9 - _
B64Char(v) ==
    IF v < 26 THEN 65 + v
    ELSE IF v < 52 THEN 97 + (v - 26)
    ELSE IF v < 62 THEN 48 + (v - 52)
    ELSE IF v = 62 THEN 45
    ELSE 95

\* The 6-bit value of a character of the URL-safe alphabet, or -1.
B64Val(c) ==
    IF c >= 65 /\ c <= 90 THEN c - 65
    ELSE IF c >= 97 /\ c <= 122 THEN c - 97 + 26
    ELSE IF c >= 48 /\ c <= 57 THEN c - 48 + 52
    ELSE IF c = 45 THEN 62
    ELSE IF c = 95 THEN 63
    ELSE -1

\* base64.RawURLEncoding.EncodeToString: the bytes are read as one string of
\* bits and cut into 6-bit values, the last one filled up with zero bits; no
\* padding is written.  Character j starts at bit 6 * (j - 1).
RawURLEncode(bs) ==
    LET n    == Len(bs)
        at(k) == IF k <= n THEN bs[k] ELSE 0
        sextet(j) ==
            LET b == ((6 * (j - 1)) \div 8) + 1
                r == (6 * (j - 1)) % 8
            IN  IF r = 0 THEN at(b) \div 4
                ELSE IF r = 6 THEN (at(b) % 4) * 16 + (at(b + 1) \div 16)
                ELSE IF r = 4 THEN (at(b) % 16) * 4 + (at(b + 1) \div 64)
                ELSE at(b) % 64
    IN  [j \in 1..((8 * n + 5) \div 6) |-> B64Char(sextet(j))]

\* 6-bit values back to bytes: byte k starts at bit 8 * (k - 1).  Left-over
\* bits of the last value are dropped (the encoding is not strict); a single
\* value left over after the groups of four cannot be decoded.
DecodeQuanta(vs) ==
    LET byte(k) ==
            LET q == ((8 * (k - 1)) \div 6) + 1
                r == (8 * (k - 1)) % 6
            IN  IF r = 0 THEN vs[q] * 4 + (vs[q + 1] \div 16)
                ELSE IF r = 2 THEN (vs[q] % 16) * 16 + (vs[q + 1] \div 4)
                ELSE (vs[q] % 4) * 64 + vs[q + 1]
    IN  IF Len(vs) % 4 = 1 THEN [ok |-> FALSE, bytes |-> <<>>]
        ELSE [ok |-> TRUE, bytes |-> [k \in 1..((6 * Len(vs)) \div 8) |-> byte(k)]]

\* base64.RawURLEncoding.DecodeString: carriage returns and line feeds are
\* skipped, any other character outside the alphabet (padding included) is
\* an error.
RawURLDecode(cs) ==
    LET kept == SelectSeq(cs, LAMBDA c : c \notin {10, 13})
    IN  IF \E i \in 1..Len(kept) : B64Val(kept[i]) = -1
        THEN [ok |-> FALSE, bytes |-> <<>>]
        ELSE DecodeQuanta([i \in 1..Len(kept) |-> B64Val(kept[i])])

\* ----------------------------------------------------- encoding/json (text)

\* Parsed JSON values: a string, an array of values, or an object, which is
\* a sequence of [key, val] members.  Numbers and the literals true, false
\* and null are outside the modelled grammar.
JValue(t, str, items) == [t |-> t, str |-> str, items |-> items]

JFail == [ok |-> FALSE, val |-> JValue("none", <<>>, <<>>), next |-> 0]

JOk(val, next) == [ok |-> TRUE, val |-> val, next |-> next]

\* The first position from i on that holds no white space.
SkipWS(s, i) == Min({j \in i..Len(s) : s[j] \notin {9, 10, 13, 32}} \cup {Len(s) + 1})

RECURSIVE ScanString(_, _, _)
\* The string literal whose opening quote precedes position i.
ScanString(s, i, acc) ==
    IF i > Len(s) THEN JFail
    ELSE IF s[i] = 34 THEN JOk(JValue("str", acc, <<>>), i + 1)
    ELSE IF s[i] < 32 THEN JFail
    ELSE IF s[i] >= 245 THEN ScanString(s, i + 1, acc \o Utf8(65533))
    ELSE IF s[i] # 92 THEN
        \* a run of bytes that stand for themselves
        LET stop == Min({j \in i..Len(s) : s[j] \in {34, 92} \/ s[j] < 32 \/ s[j] >= 245}
                        \cup {Len(s) + 1})
        IN  ScanString(s, stop, acc \o SubSeq(s, i, stop - 1))
    ELSE IF i + 1 > Len(s) THEN JFail
    ELSE LET e == s[i + 1]
         IN  IF e \in {34, 47, 92} THEN ScanString(s, i + 2, Append(acc, e))
             ELSE IF e = 98 THEN ScanString(s, i + 2, Append(acc, 8))
             ELSE IF e = 102 THEN ScanString(s, i + 2, Append(acc, 12))
             ELSE IF e = 110 THEN ScanString(s, i + 2, Append(acc, 10))
             ELSE IF e = 114 THEN ScanString(s, i + 2, Append(acc, 13))
             ELSE IF e = 116 THEN ScanString(s, i + 2, Append(acc, 9))
             ELSE IF e # 117 THEN JFail
             ELSE IF i + 5 > Len(s) THEN JFail
             ELSE IF \E k \in 2..5 : HexVal(s[i + k]) = -1 THEN JFail
             ELSE ScanString(s, i + 6,
                      acc \o Utf8(4096 * HexVal(s[i + 2]) + 256 * HexVal(s[i + 3])
                                  + 16 * HexVal(s[i + 4]) + HexVal(s[i + 5])))

RECURSIVE ParseValue(_, _)
RECURSIVE ParseArray(_, _, _, _)
RECURSIVE ParseObject(_, _, _, _)
RECURSIVE AfterElement(_, _, _, _)
RECURSIVE AfterKey(_, _, _, _)
RECURSIVE AfterMember(_, _, _, _)

\* The value that starts at position j, which holds no white space.
ValueAt(s, j) ==
    IF j > Len(s) THEN JFail
    ELSE IF s[j] = 34 THEN ScanString(s, j + 1, <<>>)
    ELSE IF s[j] = 91 THEN ParseArray(s, SkipWS(s, j + 1), <<>>, TRUE)
    ELSE IF s[j] = 123 THEN ParseObject(s, SkipWS(s, j + 1), <<>>, TRUE)
    ELSE JFail

\* The value that starts at or after position i.
ParseValue(s, i) == ValueAt(s, SkipWS(s, i))

\* The array whose elements so far are elems, at position k after an element.
AfterElement(s, elems, ok, k) ==
    IF ~ok \/ k > Len(s) THEN JFail
    ELSE IF s[k] = 44 THEN ParseArray(s, SkipWS(s, k + 1), elems, FALSE)
    ELSE IF s[k] = 93 THEN JOk(JValue("arr", <<>>, elems), k + 1)
    ELSE JFail

\* The value r read as the next element of an array.
Element(s, acc, r) == AfterElement(s, Append(acc, r.val), r.ok, SkipWS(s, r.next))

\* The elements of an array from position i on: after "[" (first) or ",".
ParseArray(s, i, acc, first) ==
    IF i > Len(s) THEN JFail
    ELSE IF first /\ s[i] = 93 THEN JOk(JValue("arr", <<>>, acc), i + 1)
    ELSE Element(s, acc, ParseValue(s, i))

\* The object whose members so far are members, at position k after a member.
AfterMember(s, members, ok, k) ==
    IF ~ok \/ k > Len(s) THEN JFail
    ELSE IF s[k] = 44 THEN ParseObject(s, SkipWS(s, k + 1), members, FALSE)
    ELSE IF s[k] = 125 THEN JOk(JValue("obj", <<>>, members), k + 1)
    ELSE JFail

\* The value r read as the value of the member named by key.
MemberValue(s, acc, key, r) ==
    AfterMember(s, Append(acc, [key |-> key.val.str, val |-> r.val]), r.ok,
                SkipWS(s, r.next))

\* The member whose name key was read, at position c after the name.
AfterKey(s, acc, key, c) ==
    IF ~key.ok \/ c > Len(s) THEN JFail
    ELSE IF s[c] # 58 THEN JFail
    ELSE MemberValue(s, acc, key, ParseValue(s, c + 1))

\* The string key read as the name of a member.
MemberKey(s, acc, key) == AfterKey(s, acc, key, SkipWS(s, key.next))

\* The members of an object from position i on: after "{" (first) or ",".
ParseObject(s, i, acc, first) ==
    IF i > Len(s) THEN JFail
    ELSE IF first /\ s[i] = 125 THEN JOk(JValue("obj", <<>>, acc), i + 1)
    ELSE IF s[i] # 34 THEN JFail
    ELSE MemberKey(s, acc, ScanString(s, i + 1, <<>>))

\* The value r as the reading of the whole text s: nothing but white space
\* may follow it.
WholeText(s, r) == IF r.ok /\ SkipWS(s, r.next) = Len(s) + 1 THEN r ELSE JFail

\* A whole JSON text.
ParseJSON(s) == WholeText(s, ParseValue(s, 1))

\* Whether object obj has a member named key.
HasMember(obj, key) == \E i \in 1..Len(obj.items) : obj.items[i].key = key

\* The member of obj named key: the last one when the name is repeated.
Member(obj, key) ==
    LET idx == {i \in 1..Len(obj.items) : obj.items[i].key = key}
    IN  obj.items[CHOOSE i \in idx : \A j \in idx : j <= i].val

\* ------------------------------------------------- AWS: EKS bearer token codec

\* "k8s-aws-v1."
v1Prefix == <<107, 56, 115, 45, 97, 119, 115, 45, 118, 49, 46>>

\* "x-k8s-aws-id"
clusterIDHeader == <<120, 45, 107, 56, 115, 45, 97, 119, 115, 45, 105, 100>>

\* "Host"
HostHeader == <<72, 111, 115, 116>>

\* http.MethodPost, "POST"
MethodPost == <<80, 79, 83, 84>>

\* The JSON names of the payload's fields: "url", "method", "clusterName",
\* "headers".
stsPresignedURLPayload ==
    [URL         |-> <<117, 114, 108>>,
     Method      |-> <<109, 101, 116, 104, 111, 100>>,
     ClusterName |-> <<99, 108, 117, 115, 116, 101, 114, 78, 97, 109, 101>>,
     Headers     |-> <<104, 101, 97, 100, 101, 114, 115>>]

\* The payload with every field at its zero value.
ZeroPayload == [URL |-> <<>>, Method |-> <<>>, ClusterName |-> <<>>, Headers |-> <<>>]

\* url.Parse fails on a URL with an ASCII control character.
URLParseFails(u) == \E i \in 1..Len(u) : u[i] < 32 \/ u[i] = 127

\* The Host of url.Parse(u): what follows "scheme://" up to the next "/",
\* "?" or "#", without user information; empty when there is no authority.
URLHost(u) ==
    LET colon == IndexAny(u, 1, {58, 47, 63, 35})
    IN  IF colon + 2 > Len(u) \/ u[colon] # 58 \/ colon = 1 THEN <<>>
        ELSE IF u[colon + 1] # 47 \/ u[colon + 2] # 47 THEN <<>>
        ELSE LET stop == IndexAny(u, colon + 3, {47, 63, 35})
                 auth == SubSeq(u, colon + 3, stop - 1)
                 ats  == {i \in 1..Len(auth) : auth[i] = 64}
             IN  IF ats = {} THEN auth
                 ELSE SubSeq(auth, (CHOOSE i \in ats : \A j \in ats : j <= i) + 1,
                             Len(auth))

RECURSIVE Less(_, _)
\* Byte-wise order of strings, the order in which json.Marshal writes map keys.
Less(a, b) ==
    IF Len(b) = 0 THEN FALSE
    ELSE IF Len(a) = 0 THEN TRUE
    ELSE IF a[1] # b[1] THEN a[1] < b[1]
    ELSE Less(Tail(a), Tail(b))

RECURSIVE SortedKeys(_)
SortedKeys(keys) ==
    IF keys = {} THEN <<>>
    ELSE LET least == CHOOSE k \in keys : \A o \in keys \ {k} : Less(k, o)
         IN  <<least>> \o SortedKeys(keys \ {least})

RECURSIVE MarshalStrings(_)
\* The elements of a []string, comma separated.
MarshalStrings(vs) ==
    IF Len(vs) = 0 THEN <<>>
    ELSE IF Len(vs) = 1 THEN MarshalString(vs[1])
    ELSE MarshalString(vs[1]) \o <<44>> \o MarshalStrings(Tail(vs))

RECURSIVE MarshalMembers(_, _)
\* The members of a map[string][]string for the keys ks, comma separated.
MarshalMembers(h, ks) ==
    IF Len(ks) = 0 THEN <<>>
    ELSE LET m == MarshalString(ks[1]) \o <<58, 91>> \o MarshalStrings(h[ks[1]]) \o <<93>>
         IN  IF Len(ks) = 1 THEN m ELSE m \o <<44>> \o MarshalMembers(h, Tail(ks))

\* json.Marshal of a map[string][]string: keys sorted.
MarshalHeaders(h) == <<123>> \o MarshalMembers(h, SortedKeys(DOMAIN h)) \o <<125>>

\* json.Marshal of the payload: the struct's fields in declaration order.
MarshalPayload(p) ==
    Concat(<< <<123>>,
              MarshalString(stsPresignedURLPayload.URL), <<58>>, MarshalString(p.URL), <<44>>,
              MarshalString(stsPresignedURLPayload.Method), <<58>>, MarshalString(p.Method), <<44>>,
              MarshalString(stsPresignedURLPayload.ClusterName), <<58>>,
                  MarshalString(p.ClusterName), <<44>>,
              MarshalString(stsPresignedURLPayload.Headers), <<58>>, MarshalHeaders(p.Headers),
              <<125>> >>)

\* Token headers that carry the URL's host under the cluster id as well.
PayloadHeaders_HostAsClusterID(clusterName, host) ==
    [k \in {clusterIDHeader, HostHeader} |-> <<host>>]

\* The headers of the token payload: the cluster id and the URL's host.
PayloadHeaders(clusterName, host) ==
    [k \in {clusterIDHeader, HostHeader} |->
        IF k = clusterIDHeader THEN <<clusterName>> ELSE <<host>>]

\* encodeToken: the payload as JSON, base64url without padding, prefixed.
encodeToken(clusterName, presignedURL) ==
    IF URLParseFails(presignedURL)
    THEN [err |-> "TokenMalformed", token |-> <<>>]
    ELSE LET payload == [URL         |-> presignedURL,
                         Method      |-> MethodPost,
                         ClusterName |-> clusterName,
                         Headers     |-> PayloadHeaders(clusterName, URLHost(presignedURL))]
         IN  [err |-> "none",
              token |-> v1Prefix \o RawURLEncode(MarshalPayload(payload))]

\* Whether v is a JSON array of strings.
IsStringArray(v) ==
    v.t = "arr" /\ \A i \in 1..Len(v.items) : v.items[i].t = "str"

\* A JSON array of strings as a []string.
StringArray(v) == [i \in 1..Len(v.items) |-> v.items[i].str]

\* The string field of a struct that JSON object obj gives under name: empty
\* when the name is absent.
FieldString(obj, name) == IF HasMember(obj, name) THEN Member(obj, name).str ELSE <<>>

\* A string field can take what obj holds under name.
FieldIsString(obj, name) == HasMember(obj, name) => Member(obj, name).t = "str"

\* The object hs as a map[string][]string.
HeaderMap(hs) ==
    [k \in {hs.items[i].key : i \in 1..Len(hs.items)} |-> StringArray(Member(hs, k))]

\* A map[string][]string field can take the value hs.
IsHeaderMap(hs) ==
    /\ hs.t = "obj"
    /\ \A i \in 1..Len(hs.items) : IsStringArray(hs.items[i].val)

\* A map[string][]string field can take what obj holds under name.
FieldIsHeaders(obj, name) == HasMember(obj, name) => IsHeaderMap(Member(obj, name))

\* The map[string][]string field that obj gives under name.
FieldHeaders(obj, name) ==
    IF HasMember(obj, name) THEN HeaderMap(Member(obj, name)) ELSE <<>>

\* json.Unmarshal into the payload struct: the text must be an object, "url",
\* "method" and "clusterName" strings and "headers" an object of arrays of
\* strings; a field the text does not name keeps its zero value and members
\* with other names are ignored.  (Names are matched exactly.)
UnmarshalValue(r) ==
    IF ~r.ok THEN [ok |-> FALSE, payload |-> ZeroPayload]
    ELSE IF r.val.t # "obj" THEN [ok |-> FALSE, payload |-> ZeroPayload]
    ELSE IF ~(/\ FieldIsString(r.val, stsPresignedURLPayload.URL)
              /\ FieldIsString(r.val, stsPresignedURLPayload.Method)
              /\ FieldIsString(r.val, stsPresignedURLPayload.ClusterName)
              /\ FieldIsHeaders(r.val, stsPresignedURLPayload.Headers))
         THEN [ok |-> FALSE, payload |-> ZeroPayload]
    ELSE [ok |-> TRUE,
          payload |->
            [URL         |-> FieldString(r.val, stsPresignedURLPayload.URL),
             Method      |-> FieldString(r.val, stsPresignedURLPayload.Method),
             ClusterName |-> FieldString(r.val, stsPresignedURLPayload.ClusterName),
             Headers     |-> FieldHeaders(r.val, stsPresignedURLPayload.Headers)]]

\* json.Unmarshal(decoded, &payload)
UnmarshalPayload(text) == UnmarshalValue(ParseJSON(text))

\* DecodeToken once the remainder is base64url-decoded.
DecodeBytes(decoded) ==
    IF ~decoded.ok THEN [ok |-> FALSE, payload |-> ZeroPayload]
    ELSE UnmarshalPayload(decoded.bytes)

\* DecodeToken: strip the prefix, base64url-decode, unmarshal.
DecodeToken(token) ==
    IF ~HasPrefix(token, v1Prefix) THEN [ok |-> FALSE, payload |-> ZeroPayload]
    ELSE DecodeBytes(RawURLDecode(TrimPrefix(token, v1Prefix)))

\* ------------------------------------------------------------------- state

VARIABLES
    \* the mint-token command (cmd/provider/token)
    pc,         \* where run() stands
    now,        \* the wall clock, in ticks
    ticks,      \* how often the clock has advanced
    flags,      \* common.Flags as cobra filled them in
    token,      \* the provider.Token in hand
    err,        \* the kind of the error being returned, or "none"
    exitCode,   \* the process's exit status, -1 while it runs
    stdout,     \* what has been written to os.Stdout, line by line
    stderr,     \* the log lines written to os.Stderr
    io,         \* the kinds of I/O started so far
    \* the EKS token codec called on its own
    awsPc, awsCluster, awsPresign, awsToken, awsPayload,
    \* the credential loader called on its own
    ldPc,       \* before or after the load
    ldCloud,    \* which loader or generator is called (gcp, aws, azure)
    ldOpts,     \* the options of the call
    ldEnv,      \* the process environment
    ldFiles,    \* the file system: path to content
    ldResult,   \* what the load returned
    \* the helpers of the errors and credentials packages called on their own
    fnPc,       \* before or after the call
    fnArg,      \* the argument of the call
    fnResult    \* what the call returned

mintVars == <<pc, now, ticks, flags, token, err, exitCode, stdout, stderr, io>>

awsVars == <<awsPc, awsCluster, awsPresign, awsToken, awsPayload>>

loaderVars == <<ldPc, ldCloud, ldOpts, ldEnv, ldFiles, ldResult>>

fnVars == <<fnPc, fnArg, fnResult>>

vars == <<mintVars, awsVars, loaderVars, fnVars>>

\* ---------------------------------------------------------- provider.Token

\* A *provider.Token: nil, or a token with its access string and expiry.
Token(access, expiresAt) == [nil |-> FALSE, AccessToken |-> access, ExpiresAt |-> expiresAt]

NilToken == [nil |-> TRUE, AccessToken |-> <<>>, ExpiresAt |-> 0]

\* Token.IsExpired: time.Now().After(t.ExpiresAt)
IsExpired(t, clock) == clock > t.ExpiresAt

\* Token.ExpiresIn: time.Until(t.ExpiresAt)
ExpiresIn(t, clock) == t.ExpiresAt - clock

\* ----------------------------------------------------------- token forms

\* gcp TokenGenerator.ValidateToken
GCP_ValidateToken(t, clock) ==
    IF t.nil THEN "TokenInvalid"
    ELSE IF t.AccessToken = <<>> THEN "TokenInvalid"
    ELSE IF IsExpired(t, clock) THEN "TokenExpired"
    ELSE "none"

\* An AWS ValidateToken that does not look at the prefix.
AWS_ValidateToken_NoPrefix(t, clock) ==
    IF t.nil THEN "TokenInvalid"
    ELSE IF t.AccessToken = <<>> THEN "TokenInvalid"
    ELSE IF IsExpired(t, clock) THEN "TokenExpired"
    ELSE "none"

\* aws TokenGenerator.ValidateToken
AWS_ValidateToken(t, clock) ==
    IF t.nil THEN "TokenInvalid"
    ELSE IF t.AccessToken = <<>> THEN "TokenInvalid"
    ELSE IF ~HasPrefix(t.AccessToken, v1Prefix) THEN "TokenInvalid"
    ELSE IF IsExpired(t, clock) THEN "TokenExpired"
    ELSE "none"

\* azure TokenGenerator.ValidateToken
Azure_ValidateToken(t, clock) ==
    IF t.nil THEN "TokenInvalid"
    ELSE IF t.AccessToken = <<>> THEN "TokenInvalid"
    ELSE IF IsExpired(t, clock) THEN "TokenExpired"
    ELSE "none"

\* The ValidateToken of the named provider's token generator.
ValidateToken(provider, t, clock) ==
    CASE provider = "gcp"   -> GCP_ValidateToken(t, clock)
      [] provider = "aws"   -> AWS_ValidateToken(t, clock)
      [] provider = "azure" -> Azure_ValidateToken(t, clock)

\* ------------------------------------------------------ exec-plugin encoder

\* A time format that rounds to the next whole second.
FormatRFC3339_RoundUp(instant) == (instant + TicksPerSecond - 1) \div TicksPerSecond

\* metav1.Time's JSON form is time.RFC3339, which has no fraction of a second:
\* the text is determined by, and stands here as, the whole seconds it shows.
FormatRFC3339(instant) == instant \div TicksPerSecond

\* The instant an RFC 3339 text of whole seconds denotes.
ParseRFC3339(seconds) == seconds * TicksPerSecond

\* NewExecCredential
NewExecCredential(access, expiresAt) ==
    [APIVersion |-> "client.authentication.k8s.io/v1",
     Kind       |-> "ExecCredential",
     Status     |-> [nil |-> FALSE, Token |-> access, ExpirationTimestamp |-> expiresAt]]

\* ExecCredential.Validate: the status and its token are required; the
\* expiration is not looked at.
Validate(e) ==
    IF e.Status.nil THEN "status is required"
    ELSE IF e.Status.Token = <<>> THEN "token is required"
    ELSE "none"

\* One line of standard output.
Line(text, secs, tok) == [text |-> text, secs |-> secs, tok |-> tok]

\* json.MarshalIndent(execCred, "", "  "): the document's lines; the line of
\* expirationTimestamp carries the RFC 3339 text, the line of token the token.
MarshalIndent(e) ==
    << Line("{", 0, <<>>),
       Line("  \"kind\": \"" \o e.Kind \o "\",", 0, <<>>),
       Line("  \"apiVersion\": \"" \o e.APIVersion \o "\",", 0, <<>>),
       Line("  \"status\": {", 0, <<>>),
       Line("    \"expirationTimestamp\":", FormatRFC3339(e.Status.ExpirationTimestamp), <<>>),
       Line("    \"token\":", 0, e.Status.Token),
       Line("  }", 0, <<>>),
       Line("}", 0, <<>>) >>

\* The "\n" WriteToken writes after the document.
Newline == Line("\n", 0, <<>>)

\* ------------------------------------------------------------- the command

Providers == {"gcp", "aws", "azure"}

\* The cluster names given on the command line: "", "c".
FlagClusterNames == {<<>>, <<99>>}

\* common.CreateProvider with the providers' NewProvider: the kind of its
\* error.  An unknown name is a plain error, which has no kind of the
\* taxonomy (errors.GetCode gives Unknown).
CreateProvider(f) ==
    CASE f.ProviderName = "gcp" ->
            IF f.ProjectID = "" THEN "ConfigMissingField" ELSE "none"
      [] f.ProviderName \in {"aws", "azure"} -> "none"
      [] OTHER -> "Unknown"

\* provider.GetTokenOptions as run() fills them in.
GetTokenOptions(f) == [ClusterName |-> f.ClusterName, ProjectID |-> f.ProjectID]

\* gcp Provider.GetToken, before it calls the token generator.
GCP_GetToken_Check(opts) ==
    IF opts.ClusterName = <<>> THEN "InvalidArgument" ELSE "none"

\* aws Provider.GetToken, before it calls the token generator.
AWS_GetToken_Check(opts) ==
    IF opts.ClusterName = <<>> THEN "InvalidArgument" ELSE "none"

\* An Azure token generator that does not look at the cluster name.
Azure_GenerateToken_Check_Absent(opts) == "none"

\* azure Provider.GetToken checks nothing; azure TokenGenerator.GenerateToken
\* checks the cluster name before it loads the credentials.
Azure_GenerateToken_Check(opts) ==
    IF opts.ClusterName = <<>> THEN "InvalidArgument" ELSE "none"

\* What a provider's GetToken answers before any credential is loaded.
GetToken_Check(provider, opts) ==
    CASE provider = "gcp"   -> GCP_GetToken_Check(opts)
      [] provider = "aws"   -> AWS_GetToken_Check(opts)
      [] provider = "azure" -> Azure_GenerateToken_Check(opts)

\* The kinds of failure of a generator's credential loading step:
\* loadCredentials, loadAWSConfig, loadAzureCredentials.
LoadFailures(provider) ==
    IF provider = "aws" THEN {"CredentialLoadFailed", "CredentialInvalid"}
    ELSE {"CredentialLoadFailed"}

\* "https://h/?A=b&C=d"
\* "https://sts.amazonaws.com/?Action=GetCallerIdentity&X-Amz-SignedHeaders=host"
PresignedURLs ==
    { <<104, 116, 116, 112, 115, 58, 47, 47, 104, 47, 63, 65, 61, 98, 38, 67, 61, 100>>,
      <<104, 116, 116, 112, 115, 58, 47, 47, 115, 116, 115, 46, 97, 109, 97, 122, 111,
        110, 97, 119, 115, 46, 99, 111, 109, 47, 63, 65, 99, 116, 105, 111, 110, 61, 71,
        101, 116, 67, 97, 108, 108, 101, 114, 73, 100, 101, 110, 116, 105, 116, 121, 38,
        88, 45, 65, 109, 122, 45, 83, 105, 103, 110, 101, 100, 72, 101, 97, 100, 101,
        114, 115, 61, 104, 111, 115, 116>> }

\* "host"
SignedHost == <<104, 111, 115, 116>>

\* createPresignedURL: presigner.PresignGetCallerIdentity(ctx, input) with an
\* empty input and no presign options.  The SDK signs the request's own
\* headers, which are the host alone; nothing of opts enters the request.
\* The possible outcomes.
createPresignedURL(opts) ==
    {[err |-> "TokenGenerationFailed", URL |-> <<>>, SignedHeaders |-> {}]}
    \cup {[err |-> "none", URL |-> u,
           SignedHeaders |-> {[name |-> SignedHost, value |-> URLHost(u)]}]
          : u \in PresignedURLs}

\* defaultPresignDuration, 15 minutes, in ticks.
defaultPresignDuration == 15 * 60 * TicksPerSecond

\* CreateProvider's TokenDuration for AWS, 15 minutes, in ticks.
awsConfigTokenDuration == 15 * 60 * TicksPerSecond

\* aws TokenGenerator.getTokenDuration
getTokenDuration(configured) ==
    IF configured > 0 THEN configured ELSE defaultPresignDuration

\* The expiries a token endpoint may report, relative to the clock: already
\* passed, this very instant, a fraction of a second ahead, seconds ahead.
ServerExpiries(clock) ==
    {e \in {clock - 1, clock, clock + 1, clock + 2 * TicksPerSecond + 1} : e >= 0}

\* The access strings a token endpoint may report: "", "t".
ServerTokens == {<<>>, <<116>>}

\* What the token generators' exchange with the cloud can yield: an error
\* kind, or a token.
\*   gcp:   createTokenSource, tokenSource.Token(), the empty-token check
\*   aws:   createPresignedURL, encodeToken, expiry stamped from the clock
\*   azure: createCredential, getAccessToken
GenerateToken_Exchange(provider, opts, clock) ==
    CASE provider = "gcp" ->
            {[err |-> k, token |-> NilToken] : k \in {"CredentialInvalid", "TokenGenerationFailed"}}
            \cup {IF a = <<>> THEN [err |-> "TokenInvalid", token |-> NilToken]
                  ELSE [err |-> "none", token |-> Token(a, e)]
                  : a \in ServerTokens, e \in ServerExpiries(clock)}
      [] provider = "azure" ->
            {[err |-> k, token |-> NilToken] : k \in {"CredentialInvalid", "TokenGenerationFailed"}}
            \cup {[err |-> "none", token |-> Token(a, e)]
                  : a \in ServerTokens, e \in ServerExpiries(clock)}
      [] provider = "aws" ->
            {IF r.err # "none" THEN [err |-> r.err, token |-> NilToken]
             ELSE LET enc == encodeToken(opts.ClusterName, r.URL)
                  IN  IF enc.err # "none" THEN [err |-> enc.err, token |-> NilToken]
                      ELSE [err |-> "none",
                            token |-> Token(enc.token,
                                            clock + getTokenDuration(awsConfigTokenDuration))]
             : r \in createPresignedURL(opts)}

\* ------------------------------------------------------ credential loader

\* strings.TrimSpace, for ASCII white space.
TrimSpace(s) ==
    LET black == {i \in 1..Len(s) : s[i] \notin {9, 10, 11, 12, 13, 32}}
    IN  IF black = {} THEN <<>>
        ELSE SubSeq(s, Min(black), CHOOSE i \in black : \A j \in black : j <= i)

RECURSIVE splitLines(_)
\* splitLines: strings.Split(content, "\n")
splitLines(content) ==
    LET nl == IndexAny(content, 1, {10})
    IN  IF nl > Len(content) THEN <<content>>
        ELSE <<SubSeq(content, 1, nl - 1)>> \o splitLines(SubSeq(content, nl + 1, Len(content)))

\* splitKeyValue: strings.SplitN(line, "=", 2), or the line alone.
splitKeyValue(line) ==
    LET eq == IndexAny(line, 1, {61})
    IN  IF eq > Len(line) THEN <<line>>
        ELSE <<SubSeq(line, 1, eq - 1), SubSeq(line, eq + 1, Len(line))>>

\* The keys of an AWS credentials file.
IniKeys ==
    [AccessKeyID     |-> <<97, 119, 115, 95, 97, 99, 99, 101, 115, 115, 95, 107, 101, 121, 95, 105, 100>>,
     SecretAccessKey |-> <<97, 119, 115, 95, 115, 101, 99, 114, 101, 116, 95, 97, 99, 99, 101, 115, 115, 95, 107, 101, 121>>,
     SessionToken    |-> <<97, 119, 115, 95, 115, 101, 115, 115, 105, 111, 110, 95, 116, 111, 107, 101, 110>>,
     Region          |-> <<114, 101, 103, 105, 111, 110>>]

ZeroAWSCredentials ==
    [AccessKeyID |-> <<>>, SecretAccessKey |-> <<>>, SessionToken |-> <<>>, Region |-> <<>>]

RECURSIVE parseLines(_, _, _, _)
\* The loop of parseAWSCredentialsINI over the lines that remain.
parseLines(lines, profileHeader, inProfile, creds) ==
    IF Len(lines) = 0 THEN creds
    ELSE LET line  == TrimSpace(lines[1])
             rest  == Tail(lines)
             parts == splitKeyValue(line)
             key   == TrimSpace(parts[1])
             value == TrimSpace(parts[2])
         IN  IF line = <<>> \/ line[1] \in {35, 59}
             THEN parseLines(rest, profileHeader, inProfile, creds)
             ELSE IF line[1] = 91
             THEN parseLines(rest, profileHeader, line = profileHeader, creds)
             ELSE IF ~inProfile \/ Len(parts) # 2
             THEN parseLines(rest, profileHeader, inProfile, creds)
             ELSE parseLines(rest, profileHeader, inProfile,
                    IF key = IniKeys.AccessKeyID THEN [creds EXCEPT !.AccessKeyID = value]
                    ELSE IF key = IniKeys.SecretAccessKey THEN [creds EXCEPT !.SecretAccessKey = value]
                    ELSE IF key = IniKeys.SessionToken THEN [creds EXCEPT !.SessionToken = value]
                    ELSE IF key = IniKeys.Region THEN [creds EXCEPT !.Region = value]
                    ELSE creds)

\* An INI parser that takes the keys before any header for the profile's.
parseAWSCredentialsINI_HeaderOptional(content, profile) ==
    parseLines(splitLines(content), <<91>> \o profile \o <<93>>, TRUE, ZeroAWSCredentials)

\* An INI parser that fills the keys the profile leaves out from [default].
parseAWSCredentialsINI_DefaultFallback(content, profile) ==
    parseLines(splitLines(content), <<91>> \o profile \o <<93>>, FALSE,
               parseLines(splitLines(content),
                          <<91, 100, 101, 102, 97, 117, 108, 116, 93>>, FALSE,
                          ZeroAWSCredentials))

\* parseAWSCredentialsINI: it never fails.
parseAWSCredentialsINI(content, profile) ==
    parseLines(splitLines(content), <<91>> \o profile \o <<93>>, FALSE, ZeroAWSCredentials)

\* A file that does not exist or cannot be read.
NoFile == [exists |-> FALSE, data |-> <<>>]

File(data) == [exists |-> TRUE, data |-> data]

\* os.ReadFile
ReadFile(files, path) == IF path \in DOMAIN files THEN files[path] ELSE NoFile

\* "default"
DefaultProfile == <<100, 101, 102, 97, 117, 108, 116>>

\* loadAWSFromFile once os.ReadFile has returned f.
AWSFromFile(f, profile) ==
    IF ~f.exists THEN [err |-> "CredentialLoadFailed", creds |-> ZeroAWSCredentials]
    ELSE [err |-> "none",
          creds |-> parseAWSCredentialsINI(f.data,
                        IF profile = <<>> THEN DefaultProfile ELSE profile)]

\* loadAWSFromFile
loadAWSFromFile(files, path, profile) == AWSFromFile(ReadFile(files, path), profile)

\* validateAWSCredentials
validateAWSCredentials(creds) ==
    IF creds.AccessKeyID = <<>> THEN "CredentialNotFound"
    ELSE IF creds.SecretAccessKey = <<>> THEN "CredentialNotFound"
    ELSE "none"

\* The credentials file LoadAWS and LoadAzure settle on: the options' file,
\* else the one the environment variable names.
CredentialsFile(opts, env, variable) ==
    IF opts.CredentialsFile # <<>> THEN opts.CredentialsFile ELSE env[variable]

\* A non-empty environment value takes the place of what is there.
Override(value, envValue) == IF envValue # <<>> THEN envValue ELSE value

\* A LoadAWS that lets the individual variables override the file.
LoadAWS_Merge_EnvOverFile(opts, env, named, fromFile) ==
    LET fileCreds == fromFile.creds
        base  == IF named
                 THEN [fileCreds EXCEPT !.Region = IF fileCreds.Region # <<>>
                                                   THEN fileCreds.Region ELSE opts.Region]
                 ELSE [AccessKeyID |-> opts.AccessKeyID,
                       SecretAccessKey |-> opts.SecretAccessKey,
                       SessionToken |-> opts.SessionToken, Region |-> opts.Region]
        creds ==
            IF opts.UseEnvironment
            THEN [AccessKeyID     |-> Override(base.AccessKeyID, env["AWS_ACCESS_KEY_ID"]),
                  SecretAccessKey |-> Override(base.SecretAccessKey, env["AWS_SECRET_ACCESS_KEY"]),
                  SessionToken    |-> Override(base.SessionToken, env["AWS_SESSION_TOKEN"]),
                  Region          |-> IF env["AWS_REGION"] # <<>> THEN env["AWS_REGION"]
                                      ELSE Override(base.Region, env["AWS_DEFAULT_REGION"])]
            ELSE base
    IN  IF fromFile.err # "none" THEN fromFile
        ELSE IF validateAWSCredentials(creds) # "none"
        THEN [err |-> validateAWSCredentials(creds), creds |-> ZeroAWSCredentials]
        ELSE [err |-> "none", creds |-> creds]

\* LoadAWS from the reading of the named file on: fromFile is what
\* loadAWSFromFile returned, when a file is named.
LoadAWS_Merge(opts, env, named, fromFile) ==
    LET fileCreds == fromFile.creds
        base  == [AccessKeyID |-> opts.AccessKeyID, SecretAccessKey |-> opts.SecretAccessKey,
                  SessionToken |-> opts.SessionToken, Region |-> opts.Region]
        creds ==
            IF named
            THEN [AccessKeyID     |-> fileCreds.AccessKeyID,
                  SecretAccessKey |-> fileCreds.SecretAccessKey,
                  SessionToken    |-> fileCreds.SessionToken,
                  Region          |-> IF fileCreds.Region # <<>> THEN fileCreds.Region
                                      ELSE base.Region]
            ELSE IF opts.UseEnvironment
            THEN [AccessKeyID     |-> Override(base.AccessKeyID, env["AWS_ACCESS_KEY_ID"]),
                  SecretAccessKey |-> Override(base.SecretAccessKey, env["AWS_SECRET_ACCESS_KEY"]),
                  SessionToken    |-> Override(base.SessionToken, env["AWS_SESSION_TOKEN"]),
                  Region          |-> IF env["AWS_REGION"] # <<>> THEN env["AWS_REGION"]
                                      ELSE Override(base.Region, env["AWS_DEFAULT_REGION"])]
            ELSE base
    IN  IF fromFile.err # "none" THEN fromFile
        ELSE IF validateAWSCredentials(creds) # "none"
        THEN [err |-> validateAWSCredentials(creds), creds |-> ZeroAWSCredentials]
        ELSE [err |-> "none", creds |-> creds]

\* LoadAWS once the credentials file is settled.
LoadAWS_File(opts, env, files, credentialsFile) ==
    LoadAWS_Merge(opts, env, credentialsFile # <<>>,
        IF credentialsFile # <<>> THEN loadAWSFromFile(files, credentialsFile, opts.Profile)
        ELSE [err |-> "none", creds |-> ZeroAWSCredentials])

\* DefaultLoader.LoadAWS
LoadAWS(opts, env, files) ==
    LoadAWS_File(opts, env, files, CredentialsFile(opts, env, "AWS_CREDENTIALS_FILE"))

\* The JSON names of an Azure credentials file.
AzureKeys ==
    [ClientID     |-> <<99, 108, 105, 101, 110, 116, 95, 105, 100>>,
     ClientSecret |-> <<99, 108, 105, 101, 110, 116, 95, 115, 101, 99, 114, 101, 116>>,
     TenantID     |-> <<116, 101, 110, 97, 110, 116, 95, 105, 100>>]

ZeroAzureCredentials == [ClientID |-> <<>>, ClientSecret |-> <<>>, TenantID |-> <<>>]

\* json.Unmarshal into the three string fields: a text that is no JSON
\* object, or has another type under one of the names, is an error; a name
\* that is absent leaves its field empty.
UnmarshalAzureValue(r) ==
    IF ~r.ok THEN [ok |-> FALSE, creds |-> ZeroAzureCredentials]
    ELSE IF r.val.t # "obj" THEN [ok |-> FALSE, creds |-> ZeroAzureCredentials]
    ELSE IF ~(/\ FieldIsString(r.val, AzureKeys.ClientID)
              /\ FieldIsString(r.val, AzureKeys.ClientSecret)
              /\ FieldIsString(r.val, AzureKeys.TenantID))
    THEN [ok |-> FALSE, creds |-> ZeroAzureCredentials]
    ELSE [ok |-> TRUE,
          creds |-> [ClientID     |-> FieldString(r.val, AzureKeys.ClientID),
                     ClientSecret |-> FieldString(r.val, AzureKeys.ClientSecret),
                     TenantID     |-> FieldString(r.val, AzureKeys.TenantID)]]

\* json.Unmarshal(data, &creds)
UnmarshalAzure(text) == UnmarshalAzureValue(ParseJSON(text))

\* loadAzureFromFile once the file is read: u is what json.Unmarshal gives.
AzureFromJSON(u) ==
    IF ~u.ok THEN [err |-> "CredentialMalformed", creds |-> ZeroAzureCredentials]
    ELSE [err |-> "none", creds |-> u.creds]

\* loadAzureFromFile once os.ReadFile has returned f.
AzureFromFile(f) ==
    IF ~f.exists THEN [err |-> "CredentialLoadFailed", creds |-> ZeroAzureCredentials]
    ELSE AzureFromJSON(UnmarshalAzure(f.data))

\* loadAzureFromFile
loadAzureFromFile(files, path) == AzureFromFile(ReadFile(files, path))

\* validateAzureCredentials
validateAzureCredentials(creds) ==
    IF creds.ClientID = <<>> THEN "CredentialNotFound"
    ELSE IF creds.ClientSecret = <<>> THEN "CredentialNotFound"
    ELSE IF creds.TenantID = <<>> THEN "CredentialNotFound"
    ELSE "none"

\* LoadAzure from the reading of the named file on: fromFile is what
\* loadAzureFromFile returned, when a file is named.
LoadAzure_Merge(opts, env, named, fromFile) ==
    LET base  == [ClientID |-> opts.ClientID, ClientSecret |-> opts.ClientSecret,
                  TenantID |-> opts.TenantID]
        creds ==
            IF named THEN fromFile.creds
            ELSE IF opts.UseEnvironment
            THEN [ClientID     |-> Override(base.ClientID, env["AZURE_CLIENT_ID"]),
                  ClientSecret |-> Override(base.ClientSecret, env["AZURE_CLIENT_SECRET"]),
                  TenantID     |-> Override(base.TenantID, env["AZURE_TENANT_ID"])]
            ELSE base
    IN  IF fromFile.err # "none" THEN fromFile
        ELSE IF validateAzureCredentials(creds) # "none"
        THEN [err |-> validateAzureCredentials(creds), creds |-> ZeroAzureCredentials]
        ELSE [err |-> "none", creds |-> creds]

\* LoadAzure once the credentials file is settled.
LoadAzure_File(opts, env, files, credentialsFile) ==
    LoadAzure_Merge(opts, env, credentialsFile # <<>>,
        IF credentialsFile # <<>> THEN loadAzureFromFile(files, credentialsFile)
        ELSE [err |-> "none", creds |-> ZeroAzureCredentials])

\* DefaultLoader.LoadAzure
LoadAzure(opts, env, files) ==
    LoadAzure_File(opts, env, files, CredentialsFile(opts, env, "AZURE_CREDENTIALS_FILE"))

\* The JSON names of the GCPCredentials fields the loader looks at.
GCPKeys ==
    [Type        |-> <<116, 121, 112, 101>>,
     ProjectID   |-> <<112, 114, 111, 106, 101, 99, 116, 95, 105, 100>>,
     PrivateKey  |-> <<112, 114, 105, 118, 97, 116, 101, 95, 107, 101, 121>>,
     ClientEmail |-> <<99, 108, 105, 101, 110, 116, 95, 101, 109, 97, 105, 108>>]

ZeroGCPCredentials ==
    [Type |-> <<>>, ProjectID |-> <<>>, PrivateKey |-> <<>>, ClientEmail |-> <<>>]

\* "service_account"
ServiceAccount == <<115, 101, 114, 118, 105, 99, 101, 95, 97, 99, 99, 111, 117, 110, 116>>

\* json.Unmarshal into GCPCredentials, of which the loader reads four string
\* fields: a text that is no JSON object, or has another type under one of
\* the names, is an error; a name that is absent leaves its field empty.
UnmarshalGCPValue(r) ==
    IF ~r.ok THEN [ok |-> FALSE, creds |-> ZeroGCPCredentials]
    ELSE IF r.val.t # "obj" THEN [ok |-> FALSE, creds |-> ZeroGCPCredentials]
    ELSE IF ~(/\ FieldIsString(r.val, GCPKeys.Type)
              /\ FieldIsString(r.val, GCPKeys.ProjectID)
              /\ FieldIsString(r.val, GCPKeys.PrivateKey)
              /\ FieldIsString(r.val, GCPKeys.ClientEmail))
    THEN [ok |-> FALSE, creds |-> ZeroGCPCredentials]
    ELSE [ok |-> TRUE,
          creds |-> [Type        |-> FieldString(r.val, GCPKeys.Type),
                     ProjectID   |-> FieldString(r.val, GCPKeys.ProjectID),
                     PrivateKey  |-> FieldString(r.val, GCPKeys.PrivateKey),
                     ClientEmail |-> FieldString(r.val, GCPKeys.ClientEmail)]]

\* json.Unmarshal(data, &creds)
UnmarshalGCP(text) == UnmarshalGCPValue(ParseJSON(text))

\* validateGCPCredentials
validateGCPCredentials(creds) ==
    IF creds.Type # ServiceAccount THEN "CredentialInvalid"
    ELSE IF creds.ProjectID = <<>> THEN "CredentialMalformed"
    ELSE IF creds.PrivateKey = <<>> THEN "CredentialMalformed"
    ELSE IF creds.ClientEmail = <<>> THEN "CredentialMalformed"
    ELSE "none"

\* LoadGCP once the file is read: u is what json.Unmarshal gives.
GCPFromJSON(u) ==
    IF ~u.ok THEN [err |-> "CredentialMalformed", creds |-> ZeroGCPCredentials]
    ELSE IF validateGCPCredentials(u.creds) # "none"
    THEN [err |-> validateGCPCredentials(u.creds), creds |-> ZeroGCPCredentials]
    ELSE [err |-> "none", creds |-> u.creds]

\* LoadGCP once os.ReadFile has returned f.
GCPFromFile(f) ==
    IF ~f.exists THEN [err |-> "CredentialLoadFailed", creds |-> ZeroGCPCredentials]
    ELSE GCPFromJSON(UnmarshalGCP(f.data))

\* LoadGCP once the path is settled.
LoadGCP_Path(files, path) ==
    IF path = <<>> THEN [err |-> "CredentialNotFound", creds |-> ZeroGCPCredentials]
    ELSE GCPFromFile(ReadFile(files, path))

\* DefaultLoader.LoadGCP
LoadGCP(path, env, files) ==
    LoadGCP_Path(files, IF path # <<>> THEN path ELSE env["GOOGLE_APPLICATION_CREDENTIALS"])

\* The loader is not running.
LoaderIdle ==
    /\ ldPc = "idle"
    /\ ldCloud = "none"
    /\ ldOpts = <<>>
    /\ ldEnv = <<>>
    /\ ldFiles = <<>>
    /\ ldResult = [err |-> "none", creds |-> <<>>]

\* No helper is being called.
FnIdle ==
    /\ fnPc = "idle"
    /\ fnArg = <<>>
    /\ fnResult = <<>>

\* ------------------------------------------------------ mint-token: run()

AwsIdle ==
    /\ awsPc = "idle"
    /\ awsCluster = <<>>
    /\ awsPresign = [err |-> "none", URL |-> <<>>, SignedHeaders |-> {}]
    /\ awsToken = <<>>
    /\ awsPayload = [ok |-> FALSE, payload |-> ZeroPayload]

\* The flags as cobra leaves them: --provider and --cluster-name are marked
\* required, --project-id is free.
FlagSets ==
    {[ProviderSet |-> p # "", ProviderName |-> p,
      ClusterSet |-> cs, ClusterName |-> c, ProjectID |-> pr]
     : p \in Providers \cup {"", "oracle"}, cs \in BOOLEAN,
       c \in FlagClusterNames, pr \in {"", "p1"}}

Init ==
    /\ pc = "Execute"
    /\ now \in 0..MaxInstant
    /\ ticks = 0
    /\ flags \in {f \in FlagSets : ~f.ClusterSet => f.ClusterName = <<>>}
    /\ token = NilToken
    /\ err = "none"
    /\ exitCode = -1
    /\ stdout = <<>>
    /\ stderr = <<>>
    /\ io = {}
    /\ AwsIdle
    /\ LoaderIdle
    /\ FnIdle

\* main: an error from Execute ends the process with status 1.
Fail(kind) ==
    /\ pc' = "done"
    /\ err' = kind
    /\ exitCode' = 1

\* run()'s log.Error before it returns the error.
LogFailure(msg) == stderr' = Append(stderr, "ERROR " \o msg)

\* The clock advances at any moment.
Tick ==
    /\ pc # "done"
    /\ ticks < MaxTicks
    /\ ticks' = ticks + 1
    /\ now' = now + 1
    /\ UNCHANGED <<pc, flags, token, err, exitCode, stdout, stderr, io>>
    /\ UNCHANGED <<awsVars, loaderVars, fnVars>>

\* cobra's Execute: a required flag that was not given ends the command
\* before RunE; errors and usage are silenced.
Execute ==
    /\ pc = "Execute"
    /\ IF ~flags.ProviderSet \/ ~flags.ClusterSet
       THEN Fail("Unknown")
       ELSE pc' = "run" /\ UNCHANGED <<err, exitCode>>
    /\ UNCHANGED <<now, ticks, flags, token, stdout, stderr, io>>
    /\ UNCHANGED <<awsVars, loaderVars, fnVars>>

\* run(): the logger on stderr, "Starting token generation", CreateProvider.
Run_CreateProvider ==
    /\ pc = "run"
    /\ LET kind == CreateProvider(flags)
       IN  IF kind # "none"
           THEN /\ Fail(kind)
                /\ stderr' = stderr \o <<"INFO Starting token generation",
                                         "ERROR Failed to create provider">>
           ELSE /\ pc' = "GetToken"
                /\ stderr' = Append(stderr, "INFO Starting token generation")
                /\ UNCHANGED <<err, exitCode>>
    /\ UNCHANGED <<now, ticks, flags, token, stdout, io>>
    /\ UNCHANGED <<awsVars, loaderVars, fnVars>>

\* prov.GetToken up to the point where credentials would be loaded.
GetToken_Check_Step ==
    /\ pc = "GetToken"
    /\ LET kind == GetToken_Check(flags.ProviderName, GetTokenOptions(flags))
       IN  IF kind # "none"
           THEN Fail(kind) /\ LogFailure("Failed to generate token")
           ELSE pc' = "loadCredentials" /\ UNCHANGED <<err, exitCode, stderr>>
    /\ UNCHANGED <<now, ticks, flags, token, stdout, io>>
    /\ UNCHANGED <<awsVars, loaderVars, fnVars>>

\* GenerateToken: the credentials are read (file, environment, SDK chain).
GenerateToken_LoadCredentials ==
    /\ pc = "loadCredentials"
    /\ io' = io \cup {"credentials"}
    /\ \E kind \in {"none"} \cup LoadFailures(flags.ProviderName) :
          IF kind # "none"
          THEN Fail(kind) /\ LogFailure("Failed to generate token")
          ELSE pc' = "exchange" /\ UNCHANGED <<err, exitCode, stderr>>
    /\ UNCHANGED <<now, ticks, flags, token, stdout>>
    /\ UNCHANGED <<awsVars, loaderVars, fnVars>>

\* GenerateToken: the exchange with the cloud, or the SDK's presigning.
GenerateToken_Exchange_Step ==
    /\ pc = "exchange"
    /\ io' = io \cup {"network"}
    /\ \E r \in GenerateToken_Exchange(flags.ProviderName, GetTokenOptions(flags), now) :
          IF r.err # "none"
          THEN Fail(r.err) /\ LogFailure("Failed to generate token") /\ UNCHANGED token
          ELSE /\ token' = r.token
               /\ pc' = "ValidateToken"
               /\ UNCHANGED <<err, exitCode, stderr>>
    /\ UNCHANGED <<now, ticks, flags, stdout>>
    /\ UNCHANGED <<awsVars, loaderVars, fnVars>>

\* GetToken: ValidateToken on the generated token; then run() logs success.
GetToken_ValidateToken ==
    /\ pc = "ValidateToken"
    /\ LET kind == ValidateToken(flags.ProviderName, token, now)
       IN  IF kind # "none"
           THEN Fail(kind) /\ LogFailure("Failed to generate token")
           ELSE /\ pc' = "WriteToken"
                /\ stderr' = Append(stderr, "INFO Token generated successfully")
                /\ UNCHANGED <<err, exitCode>>
    /\ UNCHANGED <<now, ticks, flags, token, stdout, io>>
    /\ UNCHANGED <<awsVars, loaderVars, fnVars>>

\* OutputWriter.WriteToken up to and including w.writer.Write(data): the
\* writer may take any prefix of the document before it fails.
WriteToken_Document ==
    /\ pc = "WriteToken"
    /\ IF token.nil
       THEN Fail("TokenInvalid") /\ UNCHANGED stdout
       ELSE LET execCred == NewExecCredential(token.AccessToken, token.ExpiresAt)
            IN  IF Validate(execCred) # "none"
                THEN Fail("ExecPluginInvalidOutput") /\ UNCHANGED stdout
                ELSE LET data == MarshalIndent(execCred)
                     IN  \E n \in 0..Len(data) :
                            /\ stdout' = stdout \o SubSeq(data, 1, n)
                            /\ IF n < Len(data)
                               THEN Fail("ExecPluginFailed")
                               ELSE pc' = "WriteNewline" /\ UNCHANGED <<err, exitCode>>
    /\ stderr' = IF exitCode' = 1
                 THEN Append(stderr, "ERROR Failed to write token output")
                 ELSE stderr
    /\ UNCHANGED <<now, ticks, flags, token, io>>
    /\ UNCHANGED <<awsVars, loaderVars, fnVars>>

\* OutputWriter.WriteToken's second write, of "\n", and the return to main.
WriteToken_Newline ==
    /\ pc = "WriteNewline"
    /\ \E ok \in BOOLEAN :
          IF ok
          THEN /\ stdout' = Append(stdout, Newline)
               /\ pc' = "done"
               /\ exitCode' = 0
               /\ UNCHANGED err
          ELSE Fail("ExecPluginFailed") /\ UNCHANGED stdout
    /\ stderr' = IF exitCode' = 1
                 THEN Append(stderr, "ERROR Failed to write token output")
                 ELSE stderr
    /\ UNCHANGED <<now, ticks, flags, token, io>>
    /\ UNCHANGED <<awsVars, loaderVars, fnVars>>

Next ==
    \/ Tick
    \/ Execute
    \/ Run_CreateProvider
    \/ GetToken_Check_Step
    \/ GenerateToken_LoadCredentials
    \/ GenerateToken_Exchange_Step
    \/ GetToken_ValidateToken
    \/ WriteToken_Document
    \/ WriteToken_Newline

Spec == Init /\ [][Next]_vars

TypeOK ==
    /\ pc \in {"Execute", "run", "GetToken", "loadCredentials", "exchange",
               "ValidateToken", "WriteToken", "WriteNewline", "done"}
    /\ exitCode \in {-1, 0, 1}
    /\ (pc = "done") = (exitCode # -1)

\* ------------------------------------------- the command's standard output

\* The process has ended.
Exited == pc = "done"

\* The process has ended with status 0.
Succeeded == pc = "done" /\ exitCode = 0

\* out is exactly one ExecCredential document followed by one newline.
IsOneDocument(out) ==
    /\ Len(out) = Len(MarshalIndent(NewExecCredential(<<>>, 0))) + 1
    /\ out = MarshalIndent(NewExecCredential(out[6].tok, ParseRFC3339(out[5].secs)))
             \o <<Newline>>

\* The instant the emitted document's expirationTimestamp parses back to.
EmittedExpiration == ParseRFC3339(stdout[5].secs)

\* C1: whenever the command has exited, standard output is empty if it
\* failed (a failure while writing the response included) and is exactly one
\* JSON document plus a single newline if it succeeded.
C1_StdoutNothingOrOneDocument ==
    Exited => IF exitCode # 0 THEN stdout = <<>> ELSE IsOneDocument(stdout)

\* C2: whenever the command has succeeded, the expirationTimestamp of the
\* document it emitted is strictly later than the clock at that moment.
C2_EmittedExpirationInFuture ==
    Succeeded => EmittedExpiration > now

\* C3 as stated: whenever the command has succeeded, the emitted
\* expirationTimestamp parses back to exactly the token's expires_at.
C3_ExpirationRoundTripsExactly ==
    Succeeded => EmittedExpiration = token.ExpiresAt

\* C3 amended: whenever the command has succeeded, the emitted
\* expirationTimestamp parses back to the token's expires_at cut down to the
\* whole second: never later, less than one second earlier, and the same
\* instant exactly when expires_at has no sub-second part.
C3_ExpirationRoundTripsToTheSecond ==
    Succeeded =>
        /\ EmittedExpiration <= token.ExpiresAt
        /\ token.ExpiresAt - EmittedExpiration < TicksPerSecond
        /\ EmittedExpiration % TicksPerSecond = 0
        /\ (token.ExpiresAt % TicksPerSecond = 0) = (EmittedExpiration = token.ExpiresAt)

\* An AWS token, stamped from the clock at a sub-second instant, was emitted.
C3_Witness ==
    /\ Succeeded
    /\ flags.ProviderName = "aws"
    /\ token.ExpiresAt % TicksPerSecond # 0
    /\ EmittedExpiration < token.ExpiresAt

\* GetToken was called: the flags passed cobra and the provider was created.
GetTokenCalled ==
    /\ pc \notin {"Execute", "run", "GetToken"}
    /\ flags.ProviderSet /\ flags.ClusterSet
    /\ CreateProvider(flags) = "none"

\* C6: for each of the three providers, a mint request with an empty cluster
\* name ends with InvalidArgument, and no credential was read and no network
\* or SDK call was started.
C6_EmptyClusterNameFailsBeforeIO ==
    (GetTokenCalled /\ flags.ClusterName = <<>>) =>
        /\ Exited
        /\ err = "InvalidArgument"
        /\ exitCode = 1
        /\ io = {}
        /\ token = NilToken
        /\ stdout = <<>>

\* The Azure provider was asked for a token with an empty cluster name.
C6_Witness ==
    /\ GetTokenCalled
    /\ flags.ProviderName = "azure"
    /\ flags.ClusterName = <<>>
    /\ err = "InvalidArgument"

\* ------------------------------------------ OutputWriter.WriteToken alone

\* The flags of a command that is not looked at.
NoFlags ==
    [ProviderSet |-> FALSE, ProviderName |-> "", ClusterSet |-> FALSE,
     ClusterName |-> <<>>, ProjectID |-> ""]

\* The tokens WriteToken is handed: nil, and every access string with every
\* expiry before, at and after the clock.
WriterTokens ==
    {NilToken} \cup {Token(a, e) : a \in ServerTokens, e \in 0..(MaxInstant + 1)}

InitWriter ==
    /\ pc = "WriteToken"
    /\ now \in 0..MaxInstant
    /\ ticks = 0
    /\ flags = NoFlags
    /\ token \in WriterTokens
    /\ err = "none"
    /\ exitCode = -1
    /\ stdout = <<>>
    /\ stderr = <<>>
    /\ io = {}
    /\ AwsIdle
    /\ LoaderIdle
    /\ FnIdle

NextWriter ==
    \/ WriteToken_Document
    \/ WriteToken_Newline

SpecWriter == InitWriter /\ [][NextWriter]_vars

\* WriteToken has got past its checks of the token, or has returned.
WriterDecided == pc \in {"WriteNewline", "done"}

\* C4: WriteToken answers TokenInvalid to a token whose access string is
\* empty and ExecPluginInvalidOutput to one whose expiration has already
\* passed, and in both cases nothing has been written.
C4_WriterRejectsEmptyAndExpired ==
    (WriterDecided /\ ~token.nil) =>
        /\ (token.AccessToken = <<>> => err = "TokenInvalid" /\ stdout = <<>>)
        /\ ((token.AccessToken # <<>> /\ token.ExpiresAt < now) =>
                err = "ExecPluginInvalidOutput" /\ stdout = <<>>)

\* ------------------------------------------------- ValidateToken alone

\* "k8s-aws-v1." followed by "!", which is no base64url character
TokenNotBase64 == v1Prefix \o <<33>>

\* "k8s-aws-v1." followed by "eA", the base64url of "x", which is no JSON
TokenNotJSON == v1Prefix \o <<101, 65>>

\* "k8s-aws-v1." followed by the base64url of {"url":"u"}, which has no headers
TokenNoHeader ==
    v1Prefix \o <<101, 121, 74, 49, 99, 109, 119, 105, 79, 105, 74, 49, 73, 110, 48>>

\* The token encodeToken makes for cluster "c".
TokenWellFormed ==
    encodeToken(<<99>>, CHOOSE u \in PresignedURLs : \A v \in PresignedURLs : Len(u) <= Len(v)).token

\* The access strings ValidateToken is handed.
ValidateInputs ==
    ServerTokens \cup {v1Prefix, TokenNotBase64, TokenNotJSON, TokenNoHeader, TokenWellFormed}

InitValidate ==
    /\ pc = "ValidateToken"
    /\ now \in 0..MaxInstant
    /\ ticks = 0
    /\ flags \in {[NoFlags EXCEPT !.ProviderName = p] : p \in Providers}
    /\ token \in {NilToken} \cup {Token(a, e) : a \in ValidateInputs, e \in 0..(MaxInstant + 1)}
    /\ err = "none"
    /\ exitCode = -1
    /\ stdout = <<>>
    /\ stderr = <<>>
    /\ io = {}
    /\ AwsIdle
    /\ LoaderIdle
    /\ FnIdle

NextValidate == GetToken_ValidateToken

SpecValidate == InitValidate /\ [][NextValidate]_vars

\* ValidateToken has answered.
Validated == pc # "ValidateToken"

WellFormedAWSToken(a) ==
    /\ HasPrefix(a, v1Prefix)
    /\ DecodeToken(a).ok
    /\ clusterIDHeader \in DOMAIN DecodeToken(a).payload.Headers

\* C9 as stated: the AWS ValidateToken accepts a token only if it is
\* well-formed in all three respects, and answers TokenInvalid to a token
\* that fails any of them.
C9_ValidateChecksWholeForm ==
    (Validated /\ flags.ProviderName = "aws" /\ ~token.nil) =>
        /\ (err = "none" => WellFormedAWSToken(token.AccessToken))
        /\ (~WellFormedAWSToken(token.AccessToken) => err = "TokenInvalid")

\* C9 amended: the AWS ValidateToken answers TokenInvalid exactly to a token
\* that is nil, empty or lacks the "k8s-aws-v1." prefix; a token with the
\* prefix is accepted unless it has expired, whatever follows the prefix.
C9_ValidateChecksPrefixOnly ==
    (Validated /\ flags.ProviderName = "aws") =>
        /\ (err = "TokenInvalid") =
              (token.nil \/ token.AccessToken = <<>> \/ ~HasPrefix(token.AccessToken, v1Prefix))
        /\ (err = "none") =
              (~token.nil /\ HasPrefix(token.AccessToken, v1Prefix) /\ token.ExpiresAt >= now)

\* A token with the prefix and a remainder that is not base64url was accepted.
C9_Witness ==
    /\ Validated
    /\ flags.ProviderName = "aws"
    /\ token.AccessToken = TokenNotBase64
    /\ err = "none"

\* --------------------------------------------------- the EKS token codec

\* The command is not running.
MintIdle ==
    /\ pc = "idle"
    /\ now = 0
    /\ ticks = 0
    /\ flags = NoFlags
    /\ token = NilToken
    /\ err = "none"
    /\ exitCode = -1
    /\ stdout = <<>>
    /\ stderr = <<>>
    /\ io = {}

\* The characters of cluster names: c, and those json.Marshal escapes:
\* the quote, the ampersand, the backslash and the line feed.
ClusterAlphabet == {99, 34, 38, 92, 10}

ClusterNames == StringsUpTo(ClusterAlphabet, MaxClusterLen)

InitAwsToken ==
    /\ MintIdle
    /\ awsPc = "presign"
    /\ awsCluster \in ClusterNames
    /\ awsPresign = [err |-> "none", URL |-> <<>>, SignedHeaders |-> {}]
    /\ awsToken = <<>>
    /\ awsPayload = [ok |-> FALSE, payload |-> ZeroPayload]
    /\ LoaderIdle
    /\ FnIdle

\* createPresignedURL for the cluster.
AWS_createPresignedURL ==
    /\ awsPc = "presign"
    /\ \E r \in createPresignedURL([ClusterName |-> awsCluster, ProjectID |-> ""]) :
          /\ awsPresign' = r
          /\ awsPc' = IF r.err # "none" THEN "failed" ELSE "encode"
    /\ UNCHANGED <<awsCluster, awsToken, awsPayload>>
    /\ UNCHANGED <<mintVars, loaderVars, fnVars>>

\* encodeToken on the cluster name and the presigned URL.
AWS_encodeToken ==
    /\ awsPc = "encode"
    /\ LET enc == encodeToken(awsCluster, awsPresign.URL)
       IN  /\ awsToken' = enc.token
           /\ awsPc' = IF enc.err # "none" THEN "failed" ELSE "decode"
    /\ UNCHANGED <<awsCluster, awsPresign, awsPayload>>
    /\ UNCHANGED <<mintVars, loaderVars, fnVars>>

\* DecodeToken on the emitted token.
AWS_DecodeToken ==
    /\ awsPc = "decode"
    /\ awsPayload' = DecodeToken(awsToken)
    /\ awsPc' = "done"
    /\ UNCHANGED <<awsCluster, awsPresign, awsToken>>
    /\ UNCHANGED <<mintVars, loaderVars, fnVars>>

NextAwsToken ==
    \/ AWS_createPresignedURL
    \/ AWS_encodeToken
    \/ AWS_DecodeToken

SpecAwsToken == InitAwsToken /\ [][NextAwsToken]_vars

C8_ClusterHeaderIsSigned ==
    awsPc \in {"encode", "decode", "done"} =>
        \E h \in awsPresign.SignedHeaders :
            h.name = clusterIDHeader /\ h.value = awsCluster

\* --------------------------------------------------- the loader alone

\* The paths "/o", named in the options, and "/e", named in the environment.
OptsPath == <<47, 111>>

EnvPath == <<47, 101>>

\*   [default]
\*   aws_access_key_id = FK
\*   aws_secret_access_key = FS
\*   aws_session_token = FT
\*   region = FR
IniFull ==
    <<91, 100, 101, 102, 97, 117, 108, 116, 93, 10, 97, 119, 115, 95, 97, 99, 99, 101, 115,
      115, 95, 107, 101, 121, 95, 105, 100, 32, 61, 32, 70, 75, 10, 97, 119, 115, 95, 115,
      101, 99, 114, 101, 116, 95, 97, 99, 99, 101, 115, 115, 95, 107, 101, 121, 32, 61, 32,
      70, 83, 10, 97, 119, 115, 95, 115, 101, 115, 115, 105, 111, 110, 95, 116, 111, 107,
      101, 110, 32, 61, 32, 70, 84, 10, 114, 101, 103, 105, 111, 110, 32, 61, 32, 70, 82,
      10>>

\*   # c
\*   [default]
\*   aws_access_key_id=FK
\*   aws_secret_access_key=FS
IniNoRegion ==
    <<35, 32, 99, 10, 91, 100, 101, 102, 97, 117, 108, 116, 93, 10, 97, 119, 115, 95, 97,
      99, 99, 101, 115, 115, 95, 107, 101, 121, 95, 105, 100, 61, 70, 75, 10, 97, 119, 115,
      95, 115, 101, 99, 114, 101, 116, 95, 97, 99, 99, 101, 115, 115, 95, 107, 101, 121,
      61, 70, 83, 10>>

\*   [prod]
\*   aws_access_key_id = PK
\*   aws_secret_access_key = PS
\*   region = PR
\*   [default]
\*   aws_access_key_id = FK
\*   aws_secret_access_key = FS
IniTwoProfiles ==
    <<91, 112, 114, 111, 100, 93, 10, 97, 119, 115, 95, 97, 99, 99, 101, 115, 115, 95, 107,
      101, 121, 95, 105, 100, 32, 61, 32, 80, 75, 10, 97, 119, 115, 95, 115, 101, 99, 114,
      101, 116, 95, 97, 99, 99, 101, 115, 115, 95, 107, 101, 121, 32, 61, 32, 80, 83, 10,
      114, 101, 103, 105, 111, 110, 32, 61, 32, 80, 82, 10, 91, 100, 101, 102, 97, 117,
      108, 116, 93, 10, 97, 119, 115, 95, 97, 99, 99, 101, 115, 115, 95, 107, 101, 121, 95,
      105, 100, 32, 61, 32, 70, 75, 10, 97, 119, 115, 95, 115, 101, 99, 114, 101, 116, 95,
      97, 99, 99, 101, 115, 115, 95, 107, 101, 121, 32, 61, 32, 70, 83, 10>>

\*   [prod]
\*   aws_access_key_id = PK
\*   aws_secret_access_key = PS
IniNoDefault ==
    <<91, 112, 114, 111, 100, 93, 10, 97, 119, 115, 95, 97, 99, 99, 101, 115, 115, 95, 107,
      101, 121, 95, 105, 100, 32, 61, 32, 80, 75, 10, 97, 119, 115, 95, 115, 101, 99, 114,
      101, 116, 95, 97, 99, 99, 101, 115, 115, 95, 107, 101, 121, 32, 61, 32, 80, 83, 10>>

\*   {"client_id":"FC","client_secret":"FS","tenant_id":"FT"}
\*   aws_access_key_id = FK
\*   aws_secret_access_key = FS
IniNoHeader ==
    <<97, 119, 115, 95, 97, 99, 99, 101, 115, 115, 95, 107, 101, 121, 95, 105, 100, 32, 61, 32, 70, 75, 10, 97, 119, 115, 95, 115, 101, 99, 114, 101, 116, 95, 97, 99, 99, 101, 115, 115, 95, 107, 101, 121, 32, 61, 32, 70, 83, 10>>

AzFull ==
    <<123, 34, 99, 108, 105, 101, 110, 116, 95, 105, 100, 34, 58, 34, 70, 67, 34, 44, 34,
      99, 108, 105, 101, 110, 116, 95, 115, 101, 99, 114, 101, 116, 34, 58, 34, 70, 83, 34,
      44, 34, 116, 101, 110, 97, 110, 116, 95, 105, 100, 34, 58, 34, 70, 84, 34, 125>>

\*   {"client_id":"FC","client_secret":"FS"}
AzNoTenant ==
    <<123, 34, 99, 108, 105, 101, 110, 116, 95, 105, 100, 34, 58, 34, 70, 67, 34, 44, 34,
      99, 108, 105, 101, 110, 116, 95, 115, 101, 99, 114, 101, 116, 34, 58, 34, 70, 83, 34,
      125>>

\*   {"client_id":
AzMalformed ==
    <<123, 34, 99, 108, 105, 101, 110, 116, 95, 105, 100, 34, 58>>

\* The environment with nothing set.
NoEnv ==
    [n \in {"AWS_CREDENTIALS_FILE", "AWS_ACCESS_KEY_ID", "AWS_SECRET_ACCESS_KEY",
            "AWS_SESSION_TOKEN", "AWS_REGION", "AWS_DEFAULT_REGION",
            "AZURE_CREDENTIALS_FILE", "AZURE_CLIENT_ID", "AZURE_CLIENT_SECRET",
            "AZURE_TENANT_ID", "GOOGLE_APPLICATION_CREDENTIALS"} |-> <<>>]

\* s when b holds, else the empty string.
If(b, str) == IF b THEN str ELSE <<>>

\* AWSCredentialOptions: values "OK", "OS", "OT", "OR"; profile "prod".
AWSOptions ==
    {[CredentialsFile |-> If(f, OptsPath), Profile |-> If(pr, <<112, 114, 111, 100>>),
      Region |-> If(r, <<79, 82>>), UseEnvironment |-> u,
      AccessKeyID |-> If(k, <<79, 75>>), SecretAccessKey |-> If(k, <<79, 83>>),
      SessionToken |-> If(k, <<79, 84>>)]
     : f \in BOOLEAN, pr \in BOOLEAN, r \in BOOLEAN, u \in BOOLEAN, k \in BOOLEAN}

\* The AWS variables of the environment: values "EK", "ES", "ET", "ER", "ED".
AWSEnvironments ==
    {[NoEnv EXCEPT !["AWS_CREDENTIALS_FILE"] = If(f, EnvPath),
                   !["AWS_ACCESS_KEY_ID"] = If(k, <<69, 75>>),
                   !["AWS_SECRET_ACCESS_KEY"] = If(k, <<69, 83>>),
                   !["AWS_SESSION_TOKEN"] = If(k, <<69, 84>>),
                   !["AWS_REGION"] = If(r, <<69, 82>>),
                   !["AWS_DEFAULT_REGION"] = If(d, <<69, 68>>)]
     : f \in BOOLEAN, k \in BOOLEAN, r \in BOOLEAN, d \in BOOLEAN}

\* The file system: a file or none at each of the two paths.
FileSystems(optsFiles, envFiles) ==
    {[path \in {OptsPath, EnvPath} |-> IF path = OptsPath THEN o ELSE e]
     : o \in optsFiles, e \in envFiles}

AWSFileSystems ==
    FileSystems({NoFile, File(IniFull), File(IniNoRegion), File(IniTwoProfiles),
                 File(IniNoDefault), File(IniNoHeader)},
                {NoFile, File(IniNoRegion)})

\* AzureCredentialOptions: values "OC", "OS", "OT".
AzureOptions ==
    {[CredentialsFile |-> If(f, OptsPath), UseEnvironment |-> u,
      ClientID |-> If(k, <<79, 67>>), ClientSecret |-> If(k, <<79, 83>>), TenantID |-> If(t, <<79, 84>>)]
     : f \in BOOLEAN, u \in BOOLEAN, k \in BOOLEAN, t \in BOOLEAN}

\* The Azure variables of the environment: values "EC", "ES", "ET".
AzureEnvironments ==
    {[NoEnv EXCEPT !["AZURE_CREDENTIALS_FILE"] = If(f, EnvPath),
                   !["AZURE_CLIENT_ID"] = If(k, <<69, 67>>),
                   !["AZURE_CLIENT_SECRET"] = If(k, <<69, 83>>),
                   !["AZURE_TENANT_ID"] = If(t, <<69, 84>>)]
     : f \in BOOLEAN, k \in BOOLEAN, t \in BOOLEAN}

AzureFileSystems ==
    FileSystems({NoFile, File(AzFull), File(AzNoTenant), File(AzMalformed)},
                {NoFile, File(AzFull)})

\* A member "name":"value" of a GCP key file, with the comma before it.
GCPMember(name, value) == <<44>> \o MarshalString(name) \o <<58>> \o MarshalString(value)

\* A GCP key file: {"v":"1"} followed by the type (when typ is not empty)
\* and by the fields of keys, with values "FP", "FK", "FE".
GCPText(typ, keys) ==
    <<123, 34, 118, 34, 58, 34, 49, 34>>
        \o (IF typ # <<>> THEN GCPMember(GCPKeys.Type, typ) ELSE <<>>)
        \o (IF "ProjectID" \in keys THEN GCPMember(GCPKeys.ProjectID, <<70, 80>>) ELSE <<>>)
        \o (IF "PrivateKey" \in keys THEN GCPMember(GCPKeys.PrivateKey, <<70, 75>>) ELSE <<>>)
        \o (IF "ClientEmail" \in keys THEN GCPMember(GCPKeys.ClientEmail, <<70, 69>>) ELSE <<>>)
        \o <<125>>

\* The files of a GCP load: every type (service_account, "user", none) with
\* every subset of the required fields, one that is no JSON, and none.
GCPFiles ==
    {File(GCPText(typ, keys)) : typ \in {ServiceAccount, <<117, 115, 101, 114>>, <<>>},
                                keys \in SUBSET {"ProjectID", "PrivateKey", "ClientEmail"}}
        \cup {File(AzMalformed), NoFile}

\* The path LoadGCP is called with.
GCPOptions == {[CredentialsFile |-> If(f, OptsPath)] : f \in BOOLEAN}

GCPEnvironments ==
    {[NoEnv EXCEPT !["GOOGLE_APPLICATION_CREDENTIALS"] = If(f, EnvPath)] : f \in BOOLEAN}

GCPFileSystems == FileSystems(GCPFiles, {NoFile, File(GCPText(ServiceAccount, {"ProjectID", "PrivateKey"}))})

InitLoader ==
    /\ MintIdle
    /\ AwsIdle
    /\ FnIdle
    /\ ldPc = "load"
    /\ ldCloud \in {"aws", "azure", "gcp"}
    /\ ldOpts \in CASE ldCloud = "aws" -> AWSOptions
                   [] ldCloud = "azure" -> AzureOptions
                   [] OTHER -> GCPOptions
    /\ ldEnv \in CASE ldCloud = "aws" -> AWSEnvironments
                  [] ldCloud = "azure" -> AzureEnvironments
                  [] OTHER -> GCPEnvironments
    /\ ldFiles \in CASE ldCloud = "aws" -> AWSFileSystems
                    [] ldCloud = "azure" -> AzureFileSystems
                    [] OTHER -> GCPFileSystems
    /\ ldResult = [err |-> "none", creds |-> <<>>]

\* A call of DefaultLoader.LoadAWS.
LoadAWS_Step ==
    /\ ldPc = "load"
    /\ ldCloud = "aws"
    /\ ldResult' = LoadAWS(ldOpts, ldEnv, ldFiles)
    /\ ldPc' = "done"
    /\ UNCHANGED <<ldCloud, ldOpts, ldEnv, ldFiles>>
    /\ UNCHANGED <<mintVars, awsVars, fnVars>>

\* A call of DefaultLoader.LoadAzure.
LoadAzure_Step ==
    /\ ldPc = "load"
    /\ ldCloud = "azure"
    /\ ldResult' = LoadAzure(ldOpts, ldEnv, ldFiles)
    /\ ldPc' = "done"
    /\ UNCHANGED <<ldCloud, ldOpts, ldEnv, ldFiles>>
    /\ UNCHANGED <<mintVars, awsVars, fnVars>>

\* A call of DefaultLoader.LoadGCP.
LoadGCP_Step ==
    /\ ldPc = "load"
    /\ ldCloud = "gcp"
    /\ ldResult' = LoadGCP(ldOpts.CredentialsFile, ldEnv, ldFiles)
    /\ ldPc' = "done"
    /\ UNCHANGED <<ldCloud, ldOpts, ldEnv, ldFiles>>
    /\ UNCHANGED <<mintVars, awsVars, fnVars>>

NextLoader ==
    \/ LoadAWS_Step
    \/ LoadAzure_Step
    \/ LoadGCP_Step

SpecLoader == InitLoader /\ [][NextLoader]_vars

\* The load has returned a record.
Loaded == ldPc = "done" /\ ldResult.err = "none"

\* The path of the credentials file the call settles on, empty for none.
NamedFile ==
    CredentialsFile(ldOpts, ldEnv,
        CASE ldCloud = "aws" -> "AWS_CREDENTIALS_FILE"
          [] ldCloud = "azure" -> "AZURE_CREDENTIALS_FILE"
          [] OTHER -> "GOOGLE_APPLICATION_CREDENTIALS")

\* What the named file holds for the requested profile (AWS).
FileAWS == loadAWSFromFile(ldFiles, NamedFile, ldOpts.Profile).creds

\* What the named file holds (Azure).
FileAzure == loadAzureFromFile(ldFiles, NamedFile).creds

\* The values the individual environment variables hold.
IndividualEnvValues ==
    {ldEnv[n] : n \in DOMAIN ldEnv \ {"AWS_CREDENTIALS_FILE", "AZURE_CREDENTIALS_FILE",
                                       "GOOGLE_APPLICATION_CREDENTIALS"}}
    \ {<<>>}

\* No field of the loaded record is a value of an individual variable.
NoEnvValueLoaded ==
    \A field \in DOMAIN ldResult.creds : ldResult.creds[field] \notin IndividualEnvValues

\* C10 as stated: when a file is named, by the options or by the
\* environment, every value of the loaded AWS or Azure record is the file's
\* value, and no value of an individual environment variable is in it.
C10_FileValuesOnly ==
    (Loaded /\ NamedFile # <<>>) =>
        /\ ldResult.creds = IF ldCloud = "aws" THEN FileAWS ELSE FileAzure
        /\ NoEnvValueLoaded

\* C10 amended: when a file is named, the credential fields of the loaded
\* record (AWS access key, secret and session token; Azure client id, secret
\* and tenant) are the file's values; the AWS region is the file's when the
\* file sets one and else the region of the load options; and no value of an
\* individual environment variable is in the record.
C10_FileValuesAndOptionsRegion ==
    (Loaded /\ NamedFile # <<>>) =>
        /\ ldCloud = "aws" =>
              ldResult.creds =
                  [FileAWS EXCEPT !.Region = IF FileAWS.Region # <<>> THEN FileAWS.Region
                                             ELSE ldOpts.Region]
        /\ ldCloud = "azure" => ldResult.creds = FileAzure
        /\ NoEnvValueLoaded

\* AWS credentials were loaded from a file without a region, with the
\* individual variables set and allowed, and a region in the options.
C10_Witness ==
    /\ Loaded
    /\ ldCloud = "aws"
    /\ NamedFile # <<>>
    /\ ldOpts.UseEnvironment
    /\ ldEnv["AWS_ACCESS_KEY_ID"] # <<>>
    /\ ldEnv["AWS_REGION"] # <<>>
    /\ FileAWS.Region = <<>>
    /\ ldOpts.Region # <<>>
    /\ ldResult.creds.Region = ldOpts.Region

\* The profile a LoadAWS call asks for.
RequestedProfile == IF ldOpts.Profile = <<>> THEN DefaultProfile ELSE ldOpts.Profile

\* The INI text has a header line of the profile.
HasProfileHeader(content, profile) ==
    \E i \in 1..Len(splitLines(content)) :
        TrimSpace(splitLines(content)[i]) = <<91>> \o profile \o <<93>>

\* LoadAWS was called with a named file that could be read.
NamedFileRead ==
    /\ ldPc = "done"
    /\ ldCloud = "aws"
    /\ NamedFile # <<>>
    /\ ReadFile(ldFiles, NamedFile).exists

\* C12: loading AWS credentials from a named INI file that has no header of
\* the requested profile (no header at all included) returns an error and no
\* record, whatever other profiles, options and environment variables hold.
C12_MissingProfileFails ==
    (NamedFileRead /\ ~HasProfileHeader(ReadFile(ldFiles, NamedFile).data, RequestedProfile))
        => /\ ldResult.err # "none"
           /\ ldResult.creds = ZeroAWSCredentials

\* A profile the file does not hold was requested, with another profile's
\* keys in the file and the individual variables set and allowed.
C12_Witness ==
    /\ NamedFileRead
    /\ ldOpts.Profile # <<>>
    /\ ~HasProfileHeader(ReadFile(ldFiles, NamedFile).data, RequestedProfile)
    /\ HasProfileHeader(ReadFile(ldFiles, NamedFile).data, DefaultProfile)
    /\ ldOpts.UseEnvironment
    /\ ldEnv["AWS_ACCESS_KEY_ID"] # <<>>
    /\ ldResult.err = "CredentialNotFound"

\* ---------------------------------------------------------------------
\* The INI parser on files of several profiles.

\* The profile p of the parser's calls, and a third profile.
ProfileP == <<112>>
ProfileX == <<120>>

CredentialFields == {"AccessKeyID", "SecretAccessKey", "SessionToken", "Region"}

\* The value a section gives a field: the section's letter and the field's.
SectionValue(letter, field) ==
    <<letter, CASE field = "AccessKeyID" -> 75
                [] field = "SecretAccessKey" -> 83
                [] field = "SessionToken" -> 84
                [] OTHER -> 82>>

\* One "key = value" line of a section, empty when the section lacks the key.
SectionLine(letter, keys, field) ==
    IF field \in keys
    THEN IniKeys[field] \o <<32, 61, 32>> \o SectionValue(letter, field) \o <<10>>
    ELSE <<>>

\* The text of a section: its header and its keys.
Section(name, letter, keys) ==
    <<91>> \o name \o <<93, 10>>
        \o SectionLine(letter, keys, "AccessKeyID")
        \o SectionLine(letter, keys, "SecretAccessKey")
        \o SectionLine(letter, keys, "SessionToken")
        \o SectionLine(letter, keys, "Region")

\* The orders of the sections [default] (d), [p] (p) and [x] (x) in a file.
Layouts == {<<"d", "p">>, <<"p", "d">>, <<"x", "p", "d">>, <<"d", "p", "x">>, <<"p", "x", "d">>}

SectionOf(tag, defaultKeys, profileKeys) ==
    CASE tag = "d" -> Section(DefaultProfile, 68, defaultKeys)
      [] tag = "p" -> Section(ProfileP, 80, profileKeys)
      [] OTHER -> Section(ProfileX, 88, CredentialFields)

\* The file of a layout.
IniText(layout, defaultKeys, profileKeys) ==
    SectionOf(layout[1], defaultKeys, profileKeys)
        \o SectionOf(layout[2], defaultKeys, profileKeys)
        \o (IF Len(layout) = 3 THEN SectionOf(layout[3], defaultKeys, profileKeys) ELSE <<>>)

\* A file of profiles default and p (and possibly x), and the request of p.
InitIni ==
    /\ MintIdle
    /\ AwsIdle
    /\ FnIdle
    /\ ldPc = "parse"
    /\ ldCloud = "ini"
    /\ ldOpts \in [Profile : {ProfileP}, Layout : Layouts,
                   DefaultKeys : SUBSET CredentialFields,
                   ProfileKeys : SUBSET CredentialFields]
    /\ ldEnv = <<>>
    /\ ldFiles = IniText(ldOpts.Layout, ldOpts.DefaultKeys, ldOpts.ProfileKeys)
    /\ ldResult = [err |-> "none", creds |-> <<>>]

\* A call of parseAWSCredentialsINI.
ParseINI_Step ==
    /\ ldPc = "parse"
    /\ ldResult' = [err |-> "none", creds |-> parseAWSCredentialsINI(ldFiles, ldOpts.Profile)]
    /\ ldPc' = "done"
    /\ UNCHANGED <<ldCloud, ldOpts, ldEnv, ldFiles>>
    /\ UNCHANGED <<mintVars, awsVars, fnVars>>

NextIni == ParseINI_Step

SpecIni == InitIni /\ [][NextIni]_vars

\* C13: for a file with profiles default and p in any order and with any
\* keys, the record of profile p holds p's value for every key p defines and
\* nothing for every other key, whatever default and other sections hold.
C13_OnlyProfileKeys ==
    (ldPc = "done" /\ ldCloud = "ini")
        => \A f \in CredentialFields :
               ldResult.creds[f] = IF f \in ldOpts.ProfileKeys
                                   THEN SectionValue(80, f) ELSE <<>>

\* p comes first and lacks the region, default and x follow with every key.
C13_Witness ==
    /\ ldPc = "done"
    /\ ldCloud = "ini"
    /\ ldOpts.Layout = <<"p", "x", "d">>
    /\ ldOpts.DefaultKeys = CredentialFields
    /\ ldOpts.ProfileKeys = {"AccessKeyID", "SecretAccessKey"}
    /\ ldResult.creds.AccessKeyID = <<80, 75>>
    /\ ldResult.creds.Region = <<>>

\* ---------------------------------------------------------------------
\* The kinds of the loader's failures.

\* The named file was read and parsed: what is left of the load is the
\* validation of the record.
NamedFileParsed ==
    /\ NamedFile # <<>>
    /\ ReadFile(ldFiles, NamedFile).exists
    /\ CASE ldCloud = "aws" -> TRUE
         [] ldCloud = "azure" -> UnmarshalAzure(ReadFile(ldFiles, NamedFile).data).ok
         [] OTHER -> UnmarshalGCP(ReadFile(ldFiles, NamedFile).data).ok

\* C14: a load that fails on a record read and parsed from a file (wrong
\* GCP type, or a required field missing) fails with kind CredentialInvalid;
\* kind CredentialNotFound is returned only when no file was named; kind
\* CredentialMalformed only when the named file could not be parsed.
C14_StructuralRulesGiveInvalid ==
    ldPc = "done" =>
        /\ (NamedFileParsed /\ ldResult.err # "none") => ldResult.err = "CredentialInvalid"
        /\ ldResult.err = "CredentialNotFound" => NamedFile = <<>>
        /\ ldResult.err = "CredentialMalformed" =>
              (NamedFile # <<>> /\ ReadFile(ldFiles, NamedFile).exists /\ ~NamedFileParsed)

\* ---------------------------------------------------------------------
\* The credential step of the token generators, and ValidateCredentials.

\* errors.Wrap(ErrCredentialLoadFailed, err, ...): the kind of a wrapped
\* error is the wrapping code.
WrapLoadFailed(r) ==
    IF r.err # "none" THEN [err |-> "CredentialLoadFailed", creds |-> r.creds] ELSE r

\* gcp TokenGenerator.loadCredentials: a project that differs from the
\* configured one is logged as a warning and the credentials are returned.
loadCredentials(config, env, files) ==
    WrapLoadFailed(LoadGCP(config.CredentialsFile, env, files))

\* The region of loadAWSConfig and the tenant of loadAzureCredentials: the
\* option's value, else the configuration's.
OptionOrConfig(option, configured) ==
    IF option = <<>> /\ configured # <<>> THEN configured ELSE option

\* The AWSCredentialOptions loadAWSConfig builds.
AWSCredOpts(region) ==
    [CredentialsFile |-> <<>>, Profile |-> <<>>, Region |-> region, UseEnvironment |-> TRUE,
     AccessKeyID |-> <<>>, SecretAccessKey |-> <<>>, SessionToken |-> <<>>]

\* A LoadDefaultConfig that takes the region of WithRegion and nothing else.
LoadDefaultConfig_Region_OptionOnly(region, env) == region

\* The region of the aws.Config that config.LoadDefaultConfig returns under
\* config.WithRegion(region): a non-empty region is taken; with an empty one
\* the SDK resolves the region from AWS_REGION, then AWS_DEFAULT_REGION.
LoadDefaultConfig_Region(region, env) ==
    IF region # <<>> THEN region
    ELSE IF env["AWS_REGION"] # <<>> THEN env["AWS_REGION"]
    ELSE env["AWS_DEFAULT_REGION"]

\* loadAWSConfig once LoadAWS has returned r: the aws.Config's credentials
\* and region.
AWSConfigOf(region, env, r) ==
    IF r.err # "none" THEN [err |-> r.err, creds |-> r.creds, Region |-> <<>>]
    ELSE [err |-> "none", creds |-> r.creds, Region |-> LoadDefaultConfig_Region(region, env)]

\* aws TokenGenerator.loadAWSConfig
loadAWSConfig(config, opts, env, files) ==
    AWSConfigOf(OptionOrConfig(opts.Region, config.Region), env,
        WrapLoadFailed(LoadAWS(AWSCredOpts(OptionOrConfig(opts.Region, config.Region)),
                               env, files)))

\* The AzureCredentialOptions loadAzureCredentials builds.
AzureCredOpts(tenantID) ==
    [CredentialsFile |-> <<>>, UseEnvironment |-> TRUE,
     ClientID |-> <<>>, ClientSecret |-> <<>>, TenantID |-> tenantID]

\* azure TokenGenerator.loadAzureCredentials; createCredential then takes
\* the tenant, the client and the secret of the record it returns.
loadAzureCredentials(config, opts, env, files) ==
    WrapLoadFailed(LoadAzure(AzureCredOpts(OptionOrConfig(opts.TenantID, config.TenantID)),
                             env, files))

\* gcp Provider.ValidateCredentials once LoadGCP has returned r: the kinds it
\* can end with (the test token is generated over the network).
ValidateCredentials_Kinds(config, r) ==
    IF r.err # "none" THEN {"CredentialValidationFailed"}
    ELSE IF config.ProjectID # <<>> /\ r.creds.ProjectID # config.ProjectID
    THEN {"CredentialInvalid"}
    ELSE {"none", "CredentialValidationFailed"}

\* gcp Provider.ValidateCredentials
ValidateCredentials(config, env, files) ==
    ValidateCredentials_Kinds(config, LoadGCP(config.CredentialsFile, env, files))

\* The generator's configuration (values "CP", "CR", "CT"; --credentials-file
\* names OptsPath) and the options of GenerateToken (values "OR", "OT").
GeneratorConfigs(projects, regions, tenants) ==
    [CredentialsFile : {<<>>, OptsPath}, ProjectID : projects, Region : regions,
     TenantID : tenants]

MintOptions(regions, tenants) == [Region : regions, TenantID : tenants]

\* The calls of the credential step: the operation, the configuration and
\* the options.
CredentialCalls(cloud) ==
    CASE cloud = "gcp" ->
           [Op : {"resolve", "validate"},
            Config : GeneratorConfigs({<<>>, <<70, 80>>, <<67, 80>>}, {<<>>}, {<<>>}),
            Opts : MintOptions({<<>>}, {<<>>})]
      [] cloud = "aws" ->
           [Op : {"resolve"},
            Config : GeneratorConfigs({<<>>}, {<<>>, <<67, 82>>}, {<<>>}),
            Opts : MintOptions({<<>>, <<79, 82>>}, {<<>>})]
      [] OTHER ->
           [Op : {"resolve"},
            Config : GeneratorConfigs({<<>>}, {<<>>}, {<<>>, <<67, 84>>}),
            Opts : MintOptions({<<>>}, {<<>>, <<79, 84>>})]

\* The files under the two paths at the credential step.
CredentialFileSystems(cloud) ==
    CASE cloud = "gcp" ->
           FileSystems({NoFile, File(GCPText(ServiceAccount, {"ProjectID", "PrivateKey", "ClientEmail"})),
                        File(GCPText(<<117>>, {"ProjectID", "PrivateKey", "ClientEmail"}))},
                       {NoFile, File(GCPText(ServiceAccount, {"ProjectID", "PrivateKey", "ClientEmail"}))})
      [] cloud = "aws" -> FileSystems({NoFile, File(IniFull)}, {NoFile, File(IniNoRegion)})
      [] OTHER -> FileSystems({NoFile, File(AzFull)}, {NoFile, File(AzFull), File(AzNoTenant)})

\* A generator about to load its credentials, in GenerateToken ("resolve")
\* or in ValidateCredentials ("validate").
InitCredentials ==
    /\ ldCloud \in Providers
    /\ ldOpts \in CredentialCalls(ldCloud)
    /\ ldPc = ldOpts.Op
    /\ ldEnv \in CASE ldCloud = "gcp" -> GCPEnvironments
                   [] ldCloud = "aws" -> AWSEnvironments
                   [] OTHER -> AzureEnvironments
    /\ ldFiles \in CredentialFileSystems(ldCloud)
    /\ ldResult = [err |-> "none", creds |-> <<>>]
    /\ pc = IF ldOpts.Op = "resolve" THEN "loadCredentials" ELSE "idle"
    /\ now = 0
    /\ ticks = 0
    /\ flags = NoFlags
    /\ token = NilToken
    /\ err = "none"
    /\ exitCode = -1
    /\ stdout = <<>>
    /\ stderr = <<>>
    /\ io = {}
    /\ AwsIdle
    /\ FnIdle

\* GenerateToken after its credential step returned r: a failure is returned
\* through GetToken and run() to main, else the exchange follows.
GenerateToken_Credentials(r) ==
    /\ ldResult' = r
    /\ ldPc' = "done"
    /\ io' = io \cup {"credentials"}
    /\ IF r.err # "none"
       THEN Fail(r.err) /\ LogFailure("Failed to generate token")
       ELSE pc' = "exchange" /\ UNCHANGED <<err, exitCode, stderr>>
    /\ UNCHANGED <<ldCloud, ldOpts, ldEnv, ldFiles>>
    /\ UNCHANGED <<now, ticks, flags, token, stdout>>
    /\ UNCHANGED <<awsVars, fnVars>>

\* gcp GenerateToken: loadCredentials.
GCP_loadCredentials_Step ==
    /\ ldPc = "resolve"
    /\ ldCloud = "gcp"
    /\ GenerateToken_Credentials(loadCredentials(ldOpts.Config, ldEnv, ldFiles))

\* aws GenerateToken: loadAWSConfig.
AWS_loadAWSConfig_Step ==
    /\ ldPc = "resolve"
    /\ ldCloud = "aws"
    /\ GenerateToken_Credentials(loadAWSConfig(ldOpts.Config, ldOpts.Opts, ldEnv, ldFiles))

\* azure GenerateToken: loadAzureCredentials.
Azure_loadAzureCredentials_Step ==
    /\ ldPc = "resolve"
    /\ ldCloud = "azure"
    /\ GenerateToken_Credentials(loadAzureCredentials(ldOpts.Config, ldOpts.Opts, ldEnv, ldFiles))

\* A call of gcp Provider.ValidateCredentials.
ValidateCredentials_Step ==
    /\ ldPc = "validate"
    /\ \E kind \in ValidateCredentials(ldOpts.Config, ldEnv, ldFiles) :
          ldResult' = [err |-> kind, creds |-> <<>>]
    /\ ldPc' = "done"
    /\ UNCHANGED <<ldCloud, ldOpts, ldEnv, ldFiles>>
    /\ UNCHANGED <<mintVars, awsVars, fnVars>>

NextCredentials ==
    \/ GCP_loadCredentials_Step
    \/ AWS_loadAWSConfig_Step
    \/ Azure_loadAzureCredentials_Step
    \/ ValidateCredentials_Step

SpecCredentials == InitCredentials /\ [][NextCredentials]_vars

\* The credential step of GenerateToken returned credentials.
Resolved == ldPc = "done" /\ ldOpts.Op = "resolve" /\ ldResult.err = "none"

\* C11: when the caller supplies a credentials file and the credential step
\* of the mint succeeds, the credentials it returns are those of the
\* principal in that file, for every provider.
C11_SuppliedFileIsThePrincipal ==
    (Resolved /\ ldOpts.Config.CredentialsFile # <<>>) =>
        CASE ldCloud = "gcp" ->
               ldResult.creds = LoadGCP(ldOpts.Config.CredentialsFile, NoEnv, ldFiles).creds
          [] ldCloud = "aws" ->
               /\ ReadFile(ldFiles, ldOpts.Config.CredentialsFile).exists
               /\ \A f \in {"AccessKeyID", "SecretAccessKey", "SessionToken"} :
                     ldResult.creds[f] =
                         loadAWSFromFile(ldFiles, ldOpts.Config.CredentialsFile, <<>>).creds[f]
          [] OTHER ->
               /\ ReadFile(ldFiles, ldOpts.Config.CredentialsFile).exists
               /\ ldResult.creds = loadAzureFromFile(ldFiles, ldOpts.Config.CredentialsFile).creds

\* The configured GCP project is not empty and differs from the project of
\* the principal that LoadGCP returns.
ProjectMismatch ==
    /\ ldCloud = "gcp"
    /\ ldPc = "done"
    /\ ldOpts.Config.ProjectID # <<>>
    /\ LoadGCP(ldOpts.Config.CredentialsFile, ldEnv, ldFiles).err = "none"
    /\ LoadGCP(ldOpts.Config.CredentialsFile, ldEnv, ldFiles).creds.ProjectID
           # ldOpts.Config.ProjectID

\* C15: under a GCP project mismatch ValidateCredentials fails with kind
\* CredentialInvalid, and the mint ends at its credential step with a
\* non-zero status and nothing on standard output.
C15_MismatchFailsValidationAndMint ==
    ProjectMismatch =>
        /\ ldOpts.Op = "validate" => ldResult.err = "CredentialInvalid"
        /\ ldOpts.Op = "resolve" => (pc = "done" /\ exitCode = 1 /\ stdout = <<>>)

\* The four sources of the AWS region.
RegionSources ==
    <<ldOpts.Opts.Region, ldOpts.Config.Region, ldEnv["AWS_REGION"], ldEnv["AWS_DEFAULT_REGION"]>>

\* Source i alone supplies a region.
OnlyRegionSource(i) ==
    /\ RegionSources[i] # <<>>
    /\ \A j \in 1..4 : j # i => RegionSources[j] = <<>>

C17_TenantPriority ==
    (Resolved /\ ldCloud = "azure") =>
        /\ ldOpts.Opts.TenantID # <<>> => ldResult.creds.TenantID = ldOpts.Opts.TenantID
        /\ (ldOpts.Opts.TenantID = <<>> /\ ldOpts.Config.TenantID # <<>>)
              => ldResult.creds.TenantID = ldOpts.Config.TenantID

\* ---------------------------------------------------------------------
\* pkg/errors: Redact.

\* The most context fields an error of the model carries.
MaxFields == 3

\* GetErrorInfo: the type and the status of a code.
GetErrorInfo(code) ==
    CASE code = "CredentialInvalid" ->
           [Type |-> "https://hyperfleet.io/errors/credential-invalid", Status |-> 401]
      [] OTHER ->
           [Type |-> "https://hyperfleet.io/errors/token-generation-failed", Status |-> 500]

\* errors.New(code, title).WithDetail(detail).WithFields(fields)
NewError(code, title, detail, fields) ==
    [Type |-> GetErrorInfo(code).Type, Title |-> title, Status |-> GetErrorInfo(code).Status,
     Detail |-> detail, Code |-> code, Fields |-> fields]

\* An isSensitiveField that knows the two names TestRedact asks about.
isSensitiveField_TestedNames(field) == field \in {"password", "token"}

\* isSensitiveField: the field name is one of the list, compared with ==.
isSensitiveField(field) ==
    \E sensitive \in {"password", "secret", "token", "key", "credential",
                      "auth", "api_key", "private_key", "access_key"} :
        field = sensitive

\* Error.Redact: type, title, status and code are copied, detail and cause
\* are not, and the fields are those whose name is not sensitive.
Redact(e) ==
    [Type |-> e.Type, Title |-> e.Title, Status |-> e.Status, Detail |-> "", Code |-> e.Code,
     Fields |-> [k \in {f \in DOMAIN e.Fields : ~isSensitiveField(f)} |-> e.Fields[k]]]

\* The names of the context fields: the sensitive ones, names the code
\* base uses, and names that resemble sensitive ones.
FieldNames ==
    {"password", "secret", "token", "key", "credential", "auth", "api_key",
     "private_key", "access_key",
     "username", "cluster_name", "path", "Password", "client_secret"}

\* The errors Redact is called on.
Errors ==
    {NewError(code, title, detail, [k \in names |-> "value of " \o k]) :
        code \in {"CredentialInvalid", "TokenGenerationFailed"},
        title \in {"invalid credential"},
        detail \in {"", "expected 'service_account'"},
        names \in {ns \in SUBSET FieldNames : Cardinality(ns) <= MaxFields}}

InitRedact ==
    /\ MintIdle
    /\ AwsIdle
    /\ LoaderIdle
    /\ fnPc = "Redact"
    /\ fnArg \in Errors
    /\ fnResult = <<>>

\* A call of Error.Redact.
Redact_Step ==
    /\ fnPc = "Redact"
    /\ fnResult' = Redact(fnArg)
    /\ fnPc' = "done"
    /\ UNCHANGED fnArg
    /\ UNCHANGED <<mintVars, awsVars, loaderVars>>

NextRedact == Redact_Step

SpecRedact == InitRedact /\ [][NextRedact]_vars

\* C18: the error Redact returns has no field named password, secret,
\* token, key, credential, auth, api_key, private_key or access_key; every
\* other field of the error is in it with its value; and its code, title
\* and status are the error's.
C18_RedactStripsSensitiveFields ==
    fnPc = "done" =>
        /\ DOMAIN fnResult.Fields \cap
               {"password", "secret", "token", "key", "credential", "auth", "api_key",
                "private_key", "access_key"} = {}
        /\ \A k \in DOMAIN fnArg.Fields \
                      {"password", "secret", "token", "key", "credential", "auth", "api_key",
                       "private_key", "access_key"} :
               k \in DOMAIN fnResult.Fields /\ fnResult.Fields[k] = fnArg.Fields[k]
        /\ fnResult.Code = fnArg.Code
        /\ fnResult.Title = fnArg.Title
        /\ fnResult.Status = fnArg.Status

\* An error with two sensitive fields and another one was redacted.
C18_Witness ==
    /\ fnPc = "done"
    /\ DOMAIN fnArg.Fields = {"access_key", "secret", "cluster_name"}
    /\ DOMAIN fnResult.Fields = {"cluster_name"}
    /\ fnResult.Status = 401

\* ---------------------------------------------------------------------
\* credentials: redactPath, and the diagnostics of a file that cannot be read.

\* The longest run of one-byte characters and the most two-byte characters
\* in a path of the model.
MaxAscii == 22
MaxWide == 2

\* redactPath: len() counts and the slice cuts bytes; the prefix is three
\* full stops.
redactPath(path) ==
    IF path = <<>> THEN <<>>
    ELSE IF Len(path) > 20 THEN <<46, 46, 46>> \o SubSeq(path, Len(path) - 16, Len(path))
    ELSE path

\* The message of the *fs.PathError os.ReadFile returns for a missing file:
\* "open <path>: no such file or directory".
PathErrorText(path) ==
    <<111, 112, 101, 110, 32>> \o path
        \o <<58, 32, 110, 111, 32, 115, 117, 99, 104, 32, 102, 105, 108, 101, 32, 111, 114, 32, 100, 105, 114, 101, 99, 116, 111, 114, 121>>

\* errors.Wrap(code, cause, title): WithCause makes the cause's message the
\* detail of the new error, whose Error() is then "<title>: <detail>".
WrapText(title, causeText) == title \o <<58, 32>> \o causeText

\* LoadGCP when os.ReadFile fails, wrapped by loadCredentials: the field
\* "path" of the loader's error and the text of the error GetToken returns,
\* which run() logs as "error" with "Failed to generate token".
ReadFailureDiagnostics(path) ==
    [path  |-> redactPath(path),
     error |-> WrapText(<<102, 97, 105, 108, 101, 100, 32, 116, 111, 32, 108, 111, 97, 100, 32, 71, 67, 80, 32, 99, 114, 101, 100, 101, 110, 116, 105, 97, 108, 115>>,
                   WrapText(<<102, 97, 105, 108, 101, 100, 32, 116, 111, 32, 114, 101, 97, 100, 32, 71, 67, 80, 32, 99, 114, 101, 100, 101, 110, 116, 105, 97, 108, 115, 32, 102, 105, 108, 101>>,
                       PathErrorText(path)))]

\* n one-byte characters: "/" and letters in turn.
AsciiRun(n) == [i \in 1..n |-> IF i % 5 = 1 THEN 47 ELSE 97 + (i % 26)]

\* k times the two-byte character U+00E9.
WideRun(k) == [i \in 1..(2 * k) |-> IF i % 2 = 1 THEN 195 ELSE 169]

\* The paths of credentials files.
Paths ==
    {WideRun(k) \o AsciiRun(n) : k \in 0..MaxWide, n \in 0..MaxAscii}
        \cup {AsciiRun(n) \o WideRun(k) : k \in 0..MaxWide, n \in 0..MaxAscii}

\* A path about to be redacted, or to be read in vain by a GCP mint.
InitPath ==
    /\ MintIdle
    /\ AwsIdle
    /\ LoaderIdle
    /\ fnPc \in {"redactPath", "LoadGCP"}
    /\ fnArg \in Paths
    /\ fnResult = <<>>

\* A call of redactPath.
redactPath_Step ==
    /\ fnPc = "redactPath"
    /\ fnResult' = redactPath(fnArg)
    /\ fnPc' = "redacted"
    /\ UNCHANGED fnArg
    /\ UNCHANGED <<mintVars, awsVars, loaderVars>>

\* A GCP mint whose credentials file cannot be read, up to run()'s log line.
LoadGCP_ReadFailure_Step ==
    /\ fnPc = "LoadGCP"
    /\ fnArg # <<>>
    /\ fnResult' = ReadFailureDiagnostics(fnArg)
    /\ fnPc' = "logged"
    /\ UNCHANGED fnArg
    /\ UNCHANGED <<mintVars, awsVars, loaderVars>>

NextPath ==
    \/ redactPath_Step
    \/ LoadGCP_ReadFailure_Step

SpecPath == InitPath /\ [][NextPath]_vars

\* The text s holds the text part.
Contains(s, part) ==
    \E i \in 0..(Len(s) - Len(part)) : SubSeq(s, i + 1, i + Len(part)) = part

\* C19: a credentials file path of more than 20 bytes appears in diagnostic
\* output as a three-byte mark followed by its last 17 bytes, a path of 20
\* bytes or fewer appears unchanged, and the bytes of a long path before its
\* last 17 appear in no diagnostic of a failed load.
C19_LongPathIsNeverDisclosed ==
    /\ fnPc = "redacted" =>
          IF Len(fnArg) > 20
          THEN Len(fnResult) = 20 /\ SubSeq(fnResult, 4, 20) = SubSeq(fnArg, Len(fnArg) - 16, Len(fnArg))
          ELSE fnResult = fnArg
    /\ (fnPc = "logged" /\ Len(fnArg) > 20) =>
          /\ ~Contains(fnResult.path, SubSeq(fnArg, 1, Len(fnArg) - 17))
          /\ ~Contains(fnResult.error, SubSeq(fnArg, 1, Len(fnArg) - 17))

\* ---------------------------------------------------------------------
\* mint-token without a required flag.

\* C20: a mint-token invocation without --provider or without --cluster-name
\* exits with status 2, with nothing on standard output and a message on
\* standard error.
C20_MissingFlagExitsWith2 ==
    (Exited /\ (~flags.ProviderSet \/ ~flags.ClusterSet)) =>
        /\ exitCode = 2
        /\ stdout = <<>>
        /\ stderr # <<>>

\* ---------------------------------------------------------------------
\* mint-token with a provider that is not supported.

\* C21: a mint-token invocation that names a provider other than gcp, aws
\* and azure exits with status 1 on an error of kind ProviderNotSupported,
\* which it reports on standard error, with nothing on standard output.
C21_UnknownProviderIsNotSupported ==
    (Exited /\ flags.ProviderSet /\ flags.ClusterSet /\ flags.ProviderName \notin Providers) =>
        /\ exitCode = 1
        /\ err = "ProviderNotSupported"
        /\ stdout = <<>>
        /\ stderr # <<>>

\* ---------------------------------------------------------------------
\* The options of the subcommands: flags, HFCP_ variables and defaults.

\* The options of the model: a flag of the subcommand, a persistent flag of
\* the root command with a default, and one without.
OptionNames == {"provider", "log-level", "credentials-file"}

\* The default cobra registers for a flag.
FlagDefault(option) == IF option = "log-level" THEN "info" ELSE ""

\* The flag is one of rootCmd.PersistentFlags().
IsPersistentFlag(option) == option \in {"log-level", "credentials-file"}

\* The field of common.Flags after cobra parsed the command line: the
\* flag's value when the flag is given, else its default.
ParsedFlag(o) == IF o.Given THEN o.FlagValue ELSE FlagDefault(o.Option)

\* isFlagSetExplicitly
isFlagSetExplicitly(flagName) == FALSE

\* viper.GetString(key): a bound flag that was changed, else the variable
\* HFCP_<KEY> when AutomaticEnv is on and the variable is not empty, else the
\* default of a bound flag, else "".
ViperGetString(bound, automaticEnv, o) ==
    IF bound /\ o.Given THEN o.FlagValue
    ELSE IF automaticEnv /\ o.Env # "" THEN o.Env
    ELSE IF bound THEN FlagDefault(o.Option)
    ELSE ""

\* main with cobra.OnInitialize(common.InitViper) and BindPersistentFlags
\* ("viper"), and main without them ("plain").
Mains == {"viper", "plain"}

\* The key is bound to a flag when get-cluster-info runs: its own flags by
\* BindCommandFlags, the persistent ones by BindPersistentFlags.
BoundInClusterInfo(main, option) ==
    IF IsPersistentFlag(option) THEN main = "viper" ELSE TRUE

\* BindFlagsToViper, for one field of common.Flags.
BindFlagsToViper(main, o) ==
    IF ~isFlagSetExplicitly(o.Option)
    THEN ViperGetString(BoundInClusterInfo(main, o.Option), main = "viper", o)
    ELSE ParsedFlag(o)

\* An invocation: the subcommand, the main it was built with, an option,
\* whether and how its flag is given, and its HFCP_ variable ("" when unset).
Invocations ==
    {[Command |-> c, Main |-> m, Option |-> n, Given |-> g, FlagValue |-> v, Env |-> e] :
        c \in {"get-token", "get-cluster-info", "generate-kubeconfig"},
        m \in Mains, n \in OptionNames, g \in BOOLEAN, v \in {"", "flag"}, e \in {"", "env"}}

InitOptions ==
    /\ MintIdle
    /\ AwsIdle
    /\ LoaderIdle
    /\ fnPc = "options"
    /\ fnArg \in {o \in Invocations : ~o.Given => o.FlagValue = ""}
    /\ fnResult = <<>>

\* run() of get-token and of generate-kubeconfig: the fields of common.Flags
\* are used as cobra left them.
Run_ParsedFlags ==
    /\ fnPc = "options"
    /\ fnArg.Command \in {"get-token", "generate-kubeconfig"}
    /\ fnResult' = ParsedFlag(fnArg)
    /\ fnPc' = "effective"
    /\ UNCHANGED fnArg
    /\ UNCHANGED <<mintVars, awsVars, loaderVars>>

\* run() of get-cluster-info: common.BindFlagsToViper(flags).
Run_BindFlagsToViper ==
    /\ fnPc = "options"
    /\ fnArg.Command = "get-cluster-info"
    /\ fnResult' = BindFlagsToViper(fnArg.Main, fnArg)
    /\ fnPc' = "effective"
    /\ UNCHANGED fnArg
    /\ UNCHANGED <<mintVars, awsVars, loaderVars>>

NextOptions ==
    \/ Run_ParsedFlags
    \/ Run_BindFlagsToViper

SpecOptions == InitOptions /\ [][NextOptions]_vars

\* C22: the effective value of an option is the flag's value when the flag
\* is given, else the value of its HFCP_ variable when that is set, else the
\* default.
C22_FlagThenEnvironmentThenDefault ==
    fnPc = "effective" =>
        fnResult = IF fnArg.Given THEN fnArg.FlagValue
                   ELSE IF fnArg.Env # "" THEN fnArg.Env
                   ELSE FlagDefault(fnArg.Option)

\* ---------------------------------------------------------------------
\* Signals and the context of the I/O calls of a subcommand.

\* The I/O calls of one run that the model follows.
MaxCalls == 2

\* The subcommands that perform I/O.
IOCommands == {"get-token", "get-cluster-info", "generate-kubeconfig"}

\* What a call is: a credential file read, an HTTP request, an SDK call.
IOCalls == {"file", "http", "sdk"}

\* The run before its first statement: no context, no signal.Notify, no
\* signal in sigChan, nothing cancelled, no call in flight.
RunStart ==
    [Ctx |-> "none", Notify |-> FALSE, Pending |-> FALSE, Cancelled |-> FALSE,
     InFlight |-> "none", CallCtx |-> "none", Calls |-> 0]

InitSignal ==
    /\ MintIdle
    /\ AwsIdle
    /\ LoaderIdle
    /\ fnPc = "run"
    /\ fnArg \in [Command : IOCommands]
    /\ fnResult = RunStart

\* run() of get-token and generate-kubeconfig:
\* ctx, cancel := common.SetupSignalHandler().
Run_SetupSignalHandler ==
    /\ fnPc = "run"
    /\ fnArg.Command \in {"get-token", "generate-kubeconfig"}
    /\ fnResult' = [fnResult EXCEPT !.Ctx = "signal", !.Notify = TRUE]
    /\ fnPc' = "calls"
    /\ UNCHANGED fnArg
    /\ UNCHANGED <<mintVars, awsVars, loaderVars>>

\* run() of get-cluster-info: ctx := context.Background().
Run_Background ==
    /\ fnPc = "run"
    /\ fnArg.Command = "get-cluster-info"
    /\ fnResult' = [fnResult EXCEPT !.Ctx = "background"]
    /\ fnPc' = "calls"
    /\ UNCHANGED fnArg
    /\ UNCHANGED <<mintVars, awsVars, loaderVars>>

\* An I/O call starts; it is handed run()'s ctx.
Call_Start ==
    /\ fnPc = "calls"
    /\ fnResult.InFlight = "none"
    /\ fnResult.Calls < MaxCalls
    /\ \E call \in IOCalls :
          fnResult' = [fnResult EXCEPT !.InFlight = call, !.CallCtx = fnResult.Ctx,
                                       !.Calls = fnResult.Calls + 1]
    /\ UNCHANGED <<fnPc, fnArg>>
    /\ UNCHANGED <<mintVars, awsVars, loaderVars>>

\* The call in flight returns (with its result, or with the error of its
\* context once that is cancelled).
Call_Return ==
    /\ fnPc = "calls"
    /\ fnResult.InFlight # "none"
    /\ fnResult' = [fnResult EXCEPT !.InFlight = "none"]
    /\ UNCHANGED <<fnPc, fnArg>>
    /\ UNCHANGED <<mintVars, awsVars, loaderVars>>

\* SIGINT or SIGTERM arrives: with signal.Notify it is put in sigChan (of
\* capacity 1), without it the process is terminated by the signal.
Signal ==
    /\ fnPc \in {"run", "calls"}
    /\ IF fnResult.Notify
       THEN /\ fnResult' = [fnResult EXCEPT !.Pending = TRUE]
            /\ UNCHANGED fnPc
       ELSE /\ fnPc' = "killed"
            /\ UNCHANGED fnResult
    /\ UNCHANGED fnArg
    /\ UNCHANGED <<mintVars, awsVars, loaderVars>>

\* The goroutine of SetupSignalHandler: <-sigChan; cancel().
Handler_Cancel ==
    /\ fnPc = "calls"
    /\ fnResult.Pending
    /\ ~fnResult.Cancelled
    /\ fnResult' = [fnResult EXCEPT !.Pending = FALSE, !.Cancelled = TRUE]
    /\ UNCHANGED <<fnPc, fnArg>>
    /\ UNCHANGED <<mintVars, awsVars, loaderVars>>

\* run() returns.
Run_Return ==
    /\ fnPc = "calls"
    /\ fnResult.InFlight = "none"
    /\ fnPc' = "returned"
    /\ UNCHANGED <<fnArg, fnResult>>
    /\ UNCHANGED <<mintVars, awsVars, loaderVars>>

NextSignal ==
    \/ Run_SetupSignalHandler
    \/ Run_Background
    \/ Call_Start
    \/ Call_Return
    \/ Signal
    \/ Handler_Cancel
    \/ Run_Return

SpecSignal == InitSignal /\ [][NextSignal]_vars

\* C23: in every subcommand that performs I/O, the context handed to a call
\* in flight is the one that SIGINT and SIGTERM cancel.
C23_CallContextIsTheSignalContext ==
    (fnPc = "calls" /\ fnResult.InFlight # "none") => fnResult.CallCtx = "signal"

\* ---------------------------------------------------------------------
\* The writers of the two output streams, across the subcommands.

\* The subcommands of the root command.
Subcommands == {"get-token", "get-cluster-info", "generate-kubeconfig", "version"}

\* One write: the stream and the code that wrote.
Write(stream, writer) == [Stream |-> stream, Writer |-> writer]

\* NewZapLogger: the writer of the logger is os.Stderr.
LogWrite == Write("stderr", "logger")

\* The function of get-cluster-info that encodes the answer of a provider.
ClusterInfoWriter(provider) ==
    CASE provider = "gcp" -> "getGCPClusterInfo"
      [] provider = "aws" -> "getAWSClusterInfo"
      [] OTHER -> "getAzureClusterInfo"

\* A run: the subcommand, the provider, whether --output is given (generate-kubeconfig),
\* whether its work succeeds, and the main it was built with.
StreamRuns ==
    [Command : Subcommands, Provider : Providers, OutputFile : BOOLEAN,
     Succeeds : BOOLEAN, Main : Mains]

InitStreams ==
    /\ MintIdle
    /\ AwsIdle
    /\ LoaderIdle
    /\ fnPc = "run"
    /\ fnArg \in StreamRuns
    /\ fnResult = <<>>

\* run() of the three I/O subcommands starts with log.Info.
Run_LogStart ==
    /\ fnPc = "run"
    /\ fnArg.Command # "version"
    /\ fnResult' = Append(fnResult, LogWrite)
    /\ fnPc' = "work"
    /\ UNCHANGED fnArg
    /\ UNCHANGED <<mintVars, awsVars, loaderVars>>

\* The work of the subcommand fails: get-token logs the error, the other
\* two return it.
Run_Fail ==
    /\ fnPc = "work"
    /\ ~fnArg.Succeeds
    /\ fnResult' = IF fnArg.Command = "get-token" THEN Append(fnResult, LogWrite) ELSE fnResult
    /\ fnPc' = "failed"
    /\ UNCHANGED fnArg
    /\ UNCHANGED <<mintVars, awsVars, loaderVars>>

\* get-token: log.Info, then execplugin.NewOutputWriter(os.Stdout).WriteToken.
GetToken_WriteToken ==
    /\ fnPc = "work"
    /\ fnArg.Succeeds
    /\ fnArg.Command = "get-token"
    /\ fnResult' = fnResult \o <<LogWrite, Write("stdout", "WriteToken")>>
    /\ fnPc' = "returned"
    /\ UNCHANGED fnArg
    /\ UNCHANGED <<mintVars, awsVars, loaderVars>>

\* get-cluster-info: json.NewEncoder(os.Stdout).Encode(output).
GetClusterInfo_Encode ==
    /\ fnPc = "work"
    /\ fnArg.Succeeds
    /\ fnArg.Command = "get-cluster-info"
    /\ fnResult' = Append(fnResult, Write("stdout", ClusterInfoWriter(fnArg.Provider)))
    /\ fnPc' = "returned"
    /\ UNCHANGED fnArg
    /\ UNCHANGED <<mintVars, awsVars, loaderVars>>

\* generate-kubeconfig: log.Info, then the file and a line on os.Stderr
\* with --output, else fmt.Print(string(kubeconfig)).
GenerateKubeconfig_Emit ==
    /\ fnPc = "work"
    /\ fnArg.Succeeds
    /\ fnArg.Command = "generate-kubeconfig"
    /\ fnResult' = IF fnArg.OutputFile
                   THEN fnResult \o <<LogWrite, LogWrite, Write("stderr", "kubeconfig")>>
                   ELSE fnResult \o <<LogWrite, Write("stdout", "kubeconfig")>>
    /\ fnPc' = "returned"
    /\ UNCHANGED fnArg
    /\ UNCHANGED <<mintVars, awsVars, loaderVars>>

\* runVersion: fmt.Printf.
runVersion ==
    /\ fnPc = "run"
    /\ fnArg.Command = "version"
    /\ fnResult' = Append(fnResult, Write("stdout", "runVersion"))
    /\ fnPc' = "returned"
    /\ UNCHANGED fnArg
    /\ UNCHANGED <<mintVars, awsVars, loaderVars>>

\* main on the error of Execute: one copy prints "Error: ..." on os.Stderr,
\* the other prints nothing; both exit.
Main_Error ==
    /\ fnPc = "failed"
    /\ fnResult' = IF fnArg.Main = "viper" THEN Append(fnResult, Write("stderr", "main")) ELSE fnResult
    /\ fnPc' = "exited"
    /\ UNCHANGED fnArg
    /\ UNCHANGED <<mintVars, awsVars, loaderVars>>

NextStreams ==
    \/ Run_LogStart
    \/ Run_Fail
    \/ GetToken_WriteToken
    \/ GetClusterInfo_Encode
    \/ GenerateKubeconfig_Emit
    \/ runVersion
    \/ Main_Error

SpecStreams == InitStreams /\ [][NextStreams]_vars

\* C24: across all subcommands, whatever is written to standard output is
\* written by the exec-plugin encoder of get-token or by generate-kubeconfig
\* emitting the client configuration.
C24_OnlyTokenAndKubeconfigOnStdout ==
    \A i \in 1..Len(fnResult) :
        fnResult[i].Stream = "stdout" => fnResult[i].Writer \in {"WriteToken", "kubeconfig"}

\* ---------------------------------------------------------------------
\* generate-kubeconfig: the exec arguments and the output file.

\* The cloud-specific selectors of common.Flags.
Selectors == {"project-id", "region", "account-id", "subscription-id", "tenant-id", "resource-group"}

\* The value the caller gives a selector.
SelectorValue(selector) ==
    CASE selector = "project-id" -> "my-project"
      [] selector = "region" -> "us-east-1"
      [] selector = "account-id" -> "123456789012"
      [] selector = "subscription-id" -> "sub-1"
      [] selector = "tenant-id" -> "tenant-1"
      [] OTHER -> "rg-1"

\* The field of common.Flags of a selector: its value when supplied, else "".
FlagValue(supplied, selector) == IF selector \in supplied THEN SelectorValue(selector) ELSE ""

\* One argument "--name=value".
Arg(name, value) == <<"--", name, "=", value>>

\* The selectors get...ClusterInfoForKubeconfig requires of the caller.
RequiredSelectors(provider) ==
    CASE provider = "gcp" -> {"project-id", "region"}
      [] provider = "aws" -> {"region"}
      [] OTHER -> {"subscription-id", "tenant-id", "resource-group"}

\* The keys of providerInfo besides provider, cluster-name and the creds-
\* pair.
ProviderInfoSelectors(provider) ==
    CASE provider = "gcp" -> {"project-id", "region"}
      [] provider = "aws" -> {"region"}
      [] OTHER -> {"subscription-id", "tenant-id", "resource-group"}

\* providerInfo as get...ClusterInfoForKubeconfig builds it.
ProviderInfoOf(provider, cluster, supplied) ==
    [k \in {"provider", "cluster-name"} \cup ProviderInfoSelectors(provider) |->
        CASE k = "provider" -> provider
          [] k = "cluster-name" -> cluster
          [] OTHER -> FlagValue(supplied, k)]

\* providerInfo[key] of a Go map: "" for a key that is absent.
InfoAt(providerInfo, key) ==
    IF key \in DOMAIN providerInfo THEN providerInfo[key] ELSE ""

\* execArgs of generateKubeconfigYAML.
execArgs(providerInfo) ==
    <<<<"get-token">>, Arg("provider", InfoAt(providerInfo, "provider")),
      Arg("cluster-name", InfoAt(providerInfo, "cluster-name"))>> \o
    CASE InfoAt(providerInfo, "provider") = "gcp" ->
            <<Arg("project-id", InfoAt(providerInfo, "project-id")),
              Arg("region", InfoAt(providerInfo, "region"))>>
      [] InfoAt(providerInfo, "provider") = "aws" ->
            <<Arg("region", InfoAt(providerInfo, "region"))>>
      [] InfoAt(providerInfo, "provider") = "azure" ->
            <<Arg("subscription-id", InfoAt(providerInfo, "subscription-id")),
              Arg("tenant-id", InfoAt(providerInfo, "tenant-id"))>>
      [] OTHER -> <<>>

\* The file at the output path: absent, or with a mode and a content.
NoOutputFile == [Mode |-> "none", Content |-> "none"]

\* os.WriteFile(name, data, perm): the open fails and nothing changes; or
\* the file is created with perm when absent, truncated with its mode kept
\* when present, and holds data if the write succeeds.
WriteFile(file, perm, outcome) ==
    IF outcome = "open fails" THEN file
    ELSE [Mode |-> IF file.Mode = "none" THEN perm ELSE file.Mode,
          Content |-> IF outcome = "written" THEN "kubeconfig" ELSE "partial"]

\* An invocation that passed cobra's required flags: the provider, the
\* selectors supplied, and --output: not given, a path where no file is, or
\* the path of a file of mode 0644.
KubeconfigRuns ==
    [Provider : Providers, Supplied : SUBSET Selectors, Output : {"stdout", "absent", "0644"}]

\* The file at the output path before the run.
OutputFileBefore(run) ==
    IF run.Output = "0644" THEN [Mode |-> "0644", Content |-> "old"] ELSE NoOutputFile

InitKubeconfig ==
    /\ MintIdle
    /\ AwsIdle
    /\ LoaderIdle
    /\ fnPc = "run"
    /\ fnArg \in KubeconfigRuns
    /\ fnResult = [Info |-> <<>>, Args |-> <<>>, Stdout |-> FALSE, Err |-> FALSE,
                   File |-> OutputFileBefore(fnArg)]

\* run: get...ClusterInfoForKubeconfig; a required selector is missing, or
\* provider.GetClusterInfo fails, or providerInfo is returned.
Run_ClusterInfoForKubeconfig ==
    /\ fnPc = "run"
    /\ \E ok \in BOOLEAN :
          IF RequiredSelectors(fnArg.Provider) \subseteq fnArg.Supplied /\ ok
          THEN /\ fnResult' = [fnResult EXCEPT
                                 !.Info = ProviderInfoOf(fnArg.Provider, "cluster", fnArg.Supplied)]
               /\ fnPc' = "info"
          ELSE /\ fnResult' = [fnResult EXCEPT !.Err = TRUE]
               /\ fnPc' = "returned"
    /\ UNCHANGED fnArg
    /\ UNCHANGED <<mintVars, awsVars, loaderVars>>

\* run: generateKubeconfigYAML.
Run_generateKubeconfigYAML ==
    /\ fnPc = "info"
    /\ fnResult' = [fnResult EXCEPT !.Args = execArgs(fnResult.Info)]
    /\ fnPc' = "generated"
    /\ UNCHANGED fnArg
    /\ UNCHANGED <<mintVars, awsVars, loaderVars>>

\* run: os.WriteFile(outputFile, kubeconfig, 0600) when --output is given,
\* else fmt.Print.
Run_Output ==
    /\ fnPc = "generated"
    /\ IF fnArg.Output = "stdout"
       THEN fnResult' = [fnResult EXCEPT !.Stdout = TRUE]
       ELSE \E outcome \in {"open fails", "write fails", "written"} :
               fnResult' = [fnResult EXCEPT
                              !.File = WriteFile(fnResult.File, "0600", outcome),
                              !.Err = (outcome # "written")]
    /\ fnPc' = "returned"
    /\ UNCHANGED fnArg
    /\ UNCHANGED <<mintVars, awsVars, loaderVars>>

NextKubeconfig ==
    \/ Run_ClusterInfoForKubeconfig
    \/ Run_generateKubeconfigYAML
    \/ Run_Output

SpecKubeconfig == InitKubeconfig /\ [][NextKubeconfig]_vars

\* C25: the exec arguments of the generated configuration are get-token,
\* the provider, the cluster name and every cloud-specific selector the
\* caller supplied.
C25_ArgsRepeatTheSelection ==
    fnPc = "generated" =>
        /\ fnResult.Args[1] = <<"get-token">>
        /\ fnResult.Args[2] = Arg("provider", fnArg.Provider)
        /\ fnResult.Args[3] = Arg("cluster-name", "cluster")
        /\ \A s \in fnArg.Supplied :
              \E i \in 4..Len(fnResult.Args) :
                  fnResult.Args[i] = Arg(s, SelectorValue(s))

\* C26: with an output path, a run that succeeds leaves the document at the
\* path with mode 0600; the file is not touched before retrieval and
\* generation have succeeded, and a run that fails has created no file at
\* the path.
C26_OutputFileIs0600AndOnlyOnSuccess ==
    fnArg.Output # "stdout" =>
        /\ (fnPc = "returned" /\ ~fnResult.Err) =>
              fnResult.File = [Mode |-> "0600", Content |-> "kubeconfig"]
        /\ (fnPc = "returned" /\ fnResult.Err /\ fnArg.Output = "absent") =>
              fnResult.File = NoOutputFile
        /\ fnPc # "returned" => fnResult.File = OutputFileBefore(fnArg)

\* ---------------------------------------------------------------------
\* The health server: RegisterCheck and the readiness probe.

\* The seconds of the clock the model follows.
MaxNow == 7

\* The calls of RegisterCheck the model follows.
MaxRegistrations == 2

\* The names checks are registered under.
CheckNames == {"a", "b"}

\* What a check does: return nil, return an error, or return ctx.Err()
\* only when its context ends.
CheckKinds == {"ok", "failing", "blocked"}

\* checks: make(map[string]Check).
NoChecks == [n \in CheckNames |-> "none"]

\* The seconds of 5*time.Second in handleReadiness.
ReadinessTimeout == 5

\* context.WithTimeout(r.Context(), 5*time.Second): the deadline of a probe
\* that begins at start. (ProbeDeadline_Late: a deadline one second later.)
ProbeDeadline_Late(start) == start + ReadinessTimeout + 1

ProbeDeadline(start) == start + ReadinessTimeout

\* s.mu.Lock() can proceed. (CanLock_Always: no mutual exclusion.)
CanLock_Always(mu) == TRUE

CanLock(mu) == mu = "free"

\* s.mu.RLock() can proceed.
CanRLock(mu) == mu # "W"

\* s.checks[name] = check
StoreCheck(checks, name, check) == [checks EXCEPT ![name] = check]

\* status and statusCode of handleReadiness.
ReadinessStatus(allHealthy) ==
    IF allHealthy THEN [Code |-> 200, Status |-> "ok"]
    ELSE [Code |-> 503, Status |-> "degraded"]

\* The server after NewServer: no checks, the mutex free, no RegisterCheck
\* under way; Log lists the stores of RegisterCheck in their order.
NewServer == [Checks |-> NoChecks, Mu |-> "free", Reg |-> <<>>, Log |-> <<>>]

\* A probe before handleReadiness runs.
NoProbe ==
    [Now |-> 0, Deadline |-> 0, Visited |-> {}, Snapshot |-> NoChecks, Pending |-> {},
     InFlight |-> "none", Started |-> 0, Results |-> NoChecks, Runs |-> [n \in CheckNames |-> 0],
     AllHealthy |-> TRUE, Code |-> 0, Status |-> "none"]

InitReadiness ==
    /\ MintIdle
    /\ AwsIdle
    /\ LoaderIdle
    /\ fnPc = "probe"
    /\ fnArg = NewServer
    /\ fnResult = NoProbe

\* RegisterCheck: s.mu.Lock().
RegisterCheck_Lock ==
    /\ fnArg.Reg = <<>>
    /\ Len(fnArg.Log) < MaxRegistrations
    /\ CanLock(fnArg.Mu)
    /\ \E name \in CheckNames, check \in CheckKinds :
          fnArg' = [fnArg EXCEPT !.Mu = "W", !.Reg = <<name, check>>]
    /\ UNCHANGED <<fnPc, fnResult>>
    /\ UNCHANGED <<mintVars, awsVars, loaderVars>>

\* RegisterCheck: s.checks[name] = check, and the deferred s.mu.Unlock().
RegisterCheck_Store ==
    /\ fnArg.Reg # <<>>
    /\ fnArg' = [fnArg EXCEPT !.Checks = StoreCheck(fnArg.Checks, fnArg.Reg[1], fnArg.Reg[2]),
                              !.Log = Append(fnArg.Log, fnArg.Reg),
                              !.Mu = IF fnArg.Mu = "W" THEN "free" ELSE fnArg.Mu,
                              !.Reg = <<>>]
    /\ UNCHANGED <<fnPc, fnResult>>
    /\ UNCHANGED <<mintVars, awsVars, loaderVars>>

\* handleReadiness: ctx, cancel := context.WithTimeout(r.Context(), 5s).
handleReadiness_WithTimeout ==
    /\ fnPc = "probe"
    /\ fnResult' = [fnResult EXCEPT !.Deadline = ProbeDeadline(fnResult.Now)]
    /\ fnPc' = "rlock"
    /\ UNCHANGED fnArg
    /\ UNCHANGED <<mintVars, awsVars, loaderVars>>

\* handleReadiness: s.mu.RLock().
handleReadiness_RLock ==
    /\ fnPc = "rlock"
    /\ CanRLock(fnArg.Mu)
    /\ fnArg' = [fnArg EXCEPT !.Mu = "R"]
    /\ fnPc' = "copy"
    /\ UNCHANGED fnResult
    /\ UNCHANGED <<mintVars, awsVars, loaderVars>>

\* handleReadiness: one turn of for name, check := range s.checks.
handleReadiness_Copy ==
    /\ fnPc = "copy"
    /\ \E name \in CheckNames \ fnResult.Visited :
          fnResult' = [fnResult EXCEPT
                         !.Visited = fnResult.Visited \cup {name},
                         !.Snapshot = IF fnArg.Checks[name] # "none"
                                      THEN StoreCheck(fnResult.Snapshot, name, fnArg.Checks[name])
                                      ELSE fnResult.Snapshot]
    /\ UNCHANGED <<fnPc, fnArg>>
    /\ UNCHANGED <<mintVars, awsVars, loaderVars>>

\* handleReadiness: s.mu.RUnlock(), and the answer when len(checks) == 0.
handleReadiness_RUnlock ==
    /\ fnPc = "copy"
    /\ fnResult.Visited = CheckNames
    /\ fnArg' = [fnArg EXCEPT !.Mu = IF fnArg.Mu = "R" THEN "free" ELSE fnArg.Mu]
    /\ IF fnResult.Snapshot = NoChecks
       THEN /\ fnResult' = [fnResult EXCEPT !.Code = 200, !.Status = "ok"]
            /\ fnPc' = "answered"
       ELSE /\ fnResult' = [fnResult EXCEPT
                              !.Pending = {n \in CheckNames : fnResult.Snapshot[n] # "none"}]
            /\ fnPc' = "checks"
    /\ UNCHANGED <<mintVars, awsVars, loaderVars>>

\* handleReadiness: check(ctx) is called, for a name of the map in any
\* order.
Check_Call ==
    /\ fnPc = "checks"
    /\ fnResult.InFlight = "none"
    /\ \E name \in fnResult.Pending :
          fnResult' = [fnResult EXCEPT !.InFlight = name, !.Started = fnResult.Now,
                                       !.Pending = fnResult.Pending \ {name},
                                       !.Runs = [fnResult.Runs EXCEPT ![name] = fnResult.Runs[name] + 1]]
    /\ UNCHANGED <<fnPc, fnArg>>
    /\ UNCHANGED <<mintVars, awsVars, loaderVars>>

\* The check in flight is one that waits for <-ctx.Done().
Blocked(probe) ==
    /\ probe.InFlight # "none"
    /\ probe.Snapshot[probe.InFlight] = "blocked"

\* check(ctx) returns: at once for a check that returns nil or an error, at
\* the deadline of ctx for one that waits for it; results and allHealthy.
Check_Return ==
    /\ fnPc = "checks"
    /\ fnResult.InFlight # "none"
    /\ Blocked(fnResult) => fnResult.Now >= fnResult.Deadline
    /\ fnResult' = [fnResult EXCEPT
                      !.InFlight = "none",
                      !.Results = [fnResult.Results EXCEPT ![fnResult.InFlight] =
                                      IF fnResult.Snapshot[fnResult.InFlight] = "ok"
                                      THEN "ok" ELSE "failed"],
                      !.AllHealthy = fnResult.AllHealthy /\ fnResult.Snapshot[fnResult.InFlight] = "ok"]
    /\ UNCHANGED <<fnPc, fnArg>>
    /\ UNCHANGED <<mintVars, awsVars, loaderVars>>

\* handleReadiness: w.WriteHeader(statusCode) and the response.
handleReadiness_Respond ==
    /\ fnPc = "checks"
    /\ fnResult.InFlight = "none"
    /\ fnResult.Pending = {}
    /\ fnResult' = [fnResult EXCEPT !.Code = ReadinessStatus(fnResult.AllHealthy).Code,
                                    !.Status = ReadinessStatus(fnResult.AllHealthy).Status]
    /\ fnPc' = "answered"
    /\ UNCHANGED fnArg
    /\ UNCHANGED <<mintVars, awsVars, loaderVars>>

\* A second passes while the probe runs; a check that waits for its
\* context returns when the deadline comes, before any more time passes.
Second ==
    /\ fnPc \in {"rlock", "copy", "checks"}
    /\ fnResult.Now < MaxNow
    /\ ~(Blocked(fnResult) /\ fnResult.Now >= fnResult.Deadline)
    /\ fnResult' = [fnResult EXCEPT !.Now = fnResult.Now + 1]
    /\ UNCHANGED <<fnPc, fnArg>>
    /\ UNCHANGED <<mintVars, awsVars, loaderVars>>

\* The steps of the goroutine that serves the probe.
Probe ==
    \/ handleReadiness_WithTimeout
    \/ handleReadiness_RLock
    \/ handleReadiness_Copy
    \/ handleReadiness_RUnlock
    \/ Check_Call
    \/ Check_Return
    \/ handleReadiness_Respond

NextReadiness ==
    \/ RegisterCheck_Lock
    \/ RegisterCheck_Store
    \/ handleReadiness_WithTimeout
    \/ handleReadiness_RLock
    \/ handleReadiness_Copy
    \/ handleReadiness_RUnlock
    \/ Check_Call
    \/ Check_Return
    \/ handleReadiness_Respond
    \/ Second

\* The goroutine of the probe is scheduled and time passes.
SpecReadiness ==
    InitReadiness /\ [][NextReadiness]_vars /\ WF_vars(Probe) /\ WF_vars(Second)

\* C27: a check that returns only when its context ends is cut off no later
\* than 5 seconds after it starts, whatever ran before it, and the probe
\* then answers 503.
C27_BlockedCheckIsCutOffWithin5s ==
    /\ [](Blocked(fnResult) => fnResult.Now - fnResult.Started <= ReadinessTimeout)
    /\ [](Blocked(fnResult) => <>(fnPc = "answered" /\ fnResult.Code = 503))

\* A check that waits for its context, called after another check had
\* taken some of the probe's time, has returned and the probe answered 503.
C27_Witness ==
    /\ fnPc = "answered"
    /\ fnResult.Code = 503
    /\ \E n \in CheckNames :
          /\ fnResult.Snapshot[n] = "blocked"
          /\ fnResult.Runs[n] = 1
          /\ fnResult.Started > 0
          /\ fnResult.Results[n] = "failed"


\* The registry that the first k stores of the log amount to when the later
\* store of a name replaces the earlier one.
LastWins(log, k) ==
    [n \in CheckNames |->
        IF \E i \in 1..k : log[i][1] = n
        THEN log[CHOOSE i \in 1..k :
                    /\ log[i][1] = n
                    /\ \A j \in (i + 1)..k : log[j][1] # n][2]
        ELSE "none"]

\* C28: the snapshot of a probe is the registry as some number of completed
\* RegisterCheck calls left it, a name registered twice standing for its
\* later check; every check of the snapshot is evaluated once; and the probe
\* answers 200 and ok if every one of them returned no error, else 503 and
\* degraded.
C28_ReadinessReflectsTheSnapshot ==
    /\ fnPc \in {"checks", "answered"} =>
          \E k \in 0..Len(fnArg.Log) : fnResult.Snapshot = LastWins(fnArg.Log, k)
    /\ fnPc = "answered" =>
          /\ \A n \in CheckNames :
                /\ fnResult.Runs[n] = IF fnResult.Snapshot[n] # "none" THEN 1 ELSE 0
                /\ fnResult.Snapshot[n] # "none" =>
                      fnResult.Results[n] = IF fnResult.Snapshot[n] = "ok" THEN "ok" ELSE "failed"
          /\ IF \A n \in CheckNames : fnResult.Results[n] \in {"none", "ok"}
             THEN fnResult.Code = 200 /\ fnResult.Status = "ok"
             ELSE fnResult.Code = 503 /\ fnResult.Status = "degraded"

\* A probe answered 200 after a name was registered twice with different
\* checks, the earlier failing and the later healthy.
C28_Witness ==
    /\ fnPc = "answered"
    /\ fnResult.Code = 200
    /\ Len(fnArg.Log) = 2
    /\ fnArg.Log[1][1] = fnArg.Log[2][1]
    /\ fnArg.Log[1][2] = "failing"
    /\ fnResult.Snapshot[fnArg.Log[2][1]] = "ok"

\* ---------------------------------------------------------------------
\* The provider registry under concurrent calls.

\* The goroutines that call the registry, one call each.
MaxGoroutines == 2

Goroutines == 1..MaxGoroutines

\* The names the calls are made with: two valid ones and one that is not.
RegistryNames == {"gcp", "aws", "oracle"}

\* ProviderName.IsValid
IsValid(name) == name \in Providers

\* The methods of Registry.
RegistryOps == {"Register", "Get", "Create", "IsRegistered", "ListRegistered"}

\* factories: make(map[ProviderName]ProviderFactory); a factory is known
\* by the goroutine that passed it to Register, 0 stands for no entry.
NoFactories == [n \in RegistryNames |-> 0]

\* r.mu.Lock() can proceed: no writer and no reader holds the mutex.
\* (RegistryCanLock_Always: no mutual exclusion.)
RegistryCanLock_Always(mu) == TRUE

RegistryCanLock(mu) == mu.W = 0 /\ mu.R = {}

\* r.mu.RLock() can proceed.
RegistryCanRLock(mu) == mu.W = 0

\* The registry before GlobalRegistry is first called; Stores lists the
\* stores of Register in their order.
NoRegistry ==
    [Created |-> FALSE, Factories |-> NoFactories, Mu |-> [W |-> 0, R |-> {}], Stores |-> <<>>]

\* A goroutine before its call.
NoCall ==
    [Op |-> "none", Name |-> "none", Pc |-> "idle", Exists |-> FALSE,
     Err |-> "none", Factory |-> 0, Registered |-> FALSE, Names |-> {}]

InitRegistry ==
    /\ MintIdle
    /\ AwsIdle
    /\ LoaderIdle
    /\ fnPc = "registry"
    /\ fnArg = NoRegistry
    /\ fnResult = [g \in Goroutines |-> NoCall]

\* A goroutine makes its call on the global registry.
Registry_Call ==
    /\ \E g \in Goroutines, op \in RegistryOps, name \in RegistryNames :
          /\ fnResult[g].Pc = "idle"
          /\ op = "ListRegistered" => name = "gcp"
          /\ fnResult' = [fnResult EXCEPT ![g] = [@ EXCEPT !.Op = op, !.Name = name, !.Pc = "once"]]
    /\ UNCHANGED <<fnPc, fnArg>>
    /\ UNCHANGED <<mintVars, awsVars, loaderVars>>

\* GlobalRegistry: globalRegistryOnce.Do creates the registry for the first
\* caller only.
GlobalRegistry ==
    /\ \E g \in Goroutines :
          /\ fnResult[g].Pc = "once"
          /\ fnArg' = IF fnArg.Created THEN fnArg
                      ELSE [fnArg EXCEPT !.Created = TRUE, !.Factories = NoFactories]
          /\ fnResult' = [fnResult EXCEPT ![g] =
                            [@ EXCEPT !.Pc = IF fnResult[g].Op = "Register" THEN "valid" ELSE "rlock"]]
    /\ UNCHANGED fnPc
    /\ UNCHANGED <<mintVars, awsVars, loaderVars>>

\* Register: if !name.IsValid() { return ErrProviderNotSupported }.
Register_IsValid ==
    /\ \E g \in Goroutines :
          /\ fnResult[g].Pc = "valid"
          /\ fnResult' = [fnResult EXCEPT ![g] =
                            IF IsValid(@.Name) THEN [@ EXCEPT !.Pc = "lock"]
                            ELSE [@ EXCEPT !.Pc = "done", !.Err = "ProviderNotSupported"]]
    /\ UNCHANGED <<fnPc, fnArg>>
    /\ UNCHANGED <<mintVars, awsVars, loaderVars>>

\* Register: r.mu.Lock().
Register_Lock ==
    /\ \E g \in Goroutines :
          /\ fnResult[g].Pc = "lock"
          /\ RegistryCanLock(fnArg.Mu)
          /\ fnArg' = [fnArg EXCEPT !.Mu.W = g]
          /\ fnResult' = [fnResult EXCEPT ![g] = [@ EXCEPT !.Pc = "exists"]]
    /\ UNCHANGED fnPc
    /\ UNCHANGED <<mintVars, awsVars, loaderVars>>

\* Register: _, exists := r.factories[name].
Register_Exists ==
    /\ \E g \in Goroutines :
          /\ fnResult[g].Pc = "exists"
          /\ fnResult' = [fnResult EXCEPT ![g] =
                            [@ EXCEPT !.Pc = "store", !.Exists = fnArg.Factories[fnResult[g].Name] # 0]]
    /\ UNCHANGED <<fnPc, fnArg>>
    /\ UNCHANGED <<mintVars, awsVars, loaderVars>>

\* Register: return ErrAlreadyExists, or r.factories[name] = factory and
\* return nil; the deferred r.mu.Unlock().
Register_Store ==
    /\ \E g \in Goroutines :
          /\ fnResult[g].Pc = "store"
          /\ IF fnResult[g].Exists
             THEN /\ fnArg' = [fnArg EXCEPT !.Mu.W = IF @ = g THEN 0 ELSE @]
                  /\ fnResult' = [fnResult EXCEPT ![g] =
                                    [@ EXCEPT !.Pc = "done", !.Err = "AlreadyExists"]]
             ELSE /\ fnArg' = [fnArg EXCEPT !.Mu.W = IF @ = g THEN 0 ELSE @,
                                            !.Factories[fnResult[g].Name] = g,
                                            !.Stores = Append(@, <<fnResult[g].Name, g>>)]
                  /\ fnResult' = [fnResult EXCEPT ![g] = [@ EXCEPT !.Pc = "done", !.Err = ""]]
    /\ UNCHANGED fnPc
    /\ UNCHANGED <<mintVars, awsVars, loaderVars>>

\* Get (also from Create), IsRegistered, ListRegistered: r.mu.RLock().
Registry_RLock ==
    /\ \E g \in Goroutines :
          /\ fnResult[g].Pc = "rlock"
          /\ RegistryCanRLock(fnArg.Mu)
          /\ fnArg' = [fnArg EXCEPT !.Mu.R = @ \cup {g}]
          /\ fnResult' = [fnResult EXCEPT ![g] = [@ EXCEPT !.Pc = "read"]]
    /\ UNCHANGED fnPc
    /\ UNCHANGED <<mintVars, awsVars, loaderVars>>

\* Get, IsRegistered, ListRegistered: the read of r.factories, the result
\* and the deferred r.mu.RUnlock(); Create goes on to call the factory.
Registry_Read ==
    /\ \E g \in Goroutines :
          /\ fnResult[g].Pc = "read"
          /\ fnArg' = [fnArg EXCEPT !.Mu.R = @ \ {g}]
          /\ fnResult' = [fnResult EXCEPT ![g] =
                CASE @.Op \in {"Get", "Create"} ->
                        IF fnArg.Factories[@.Name] = 0
                        THEN [@ EXCEPT !.Pc = "done", !.Err = "ProviderNotRegistered"]
                        ELSE [@ EXCEPT !.Pc = IF fnResult[g].Op = "Create" THEN "factory" ELSE "done",
                                       !.Err = "", !.Factory = fnArg.Factories[fnResult[g].Name]]
                  [] @.Op = "IsRegistered" ->
                        [@ EXCEPT !.Pc = "done", !.Err = "",
                                  !.Registered = fnArg.Factories[fnResult[g].Name] # 0]
                  [] OTHER ->
                        [@ EXCEPT !.Pc = "done", !.Err = "",
                                  !.Names = {n \in RegistryNames : fnArg.Factories[n] # 0}]]
    /\ UNCHANGED fnPc
    /\ UNCHANGED <<mintVars, awsVars, loaderVars>>

\* Create: provider, err := factory(ctx, r.logger), which fails or not.
Create_Factory ==
    /\ \E g \in Goroutines, failed \in BOOLEAN :
          /\ fnResult[g].Pc = "factory"
          /\ fnResult' = [fnResult EXCEPT ![g] =
                            [@ EXCEPT !.Pc = "done",
                                      !.Err = IF failed THEN "ProviderInitFailed" ELSE ""]]
    /\ UNCHANGED <<fnPc, fnArg>>
    /\ UNCHANGED <<mintVars, awsVars, loaderVars>>

NextRegistry ==
    \/ Registry_Call
    \/ GlobalRegistry
    \/ Register_IsValid
    \/ Register_Lock
    \/ Register_Exists
    \/ Register_Store
    \/ Registry_RLock
    \/ Registry_Read
    \/ Create_Factory

SpecRegistry == InitRegistry /\ [][NextRegistry]_vars

\* The Register calls for a name that have returned.
Registered(name) ==
    {g \in Goroutines : fnResult[g].Op = "Register" /\ fnResult[g].Name = name /\ fnResult[g].Pc = "done"}

\* C29: under every interleaving a name is stored at most once; of the
\* Register calls for a valid name that have returned exactly one succeeded,
\* its factory is the one bound, and the others failed with AlreadyExists;
\* an invalid name is never stored; and Get or Create succeeds only with the
\* factory a Register for the name has stored.
C29_OneFactoryPerName ==
    /\ \A n \in RegistryNames :
          /\ Cardinality({i \in 1..Len(fnArg.Stores) : fnArg.Stores[i][1] = n}) <= 1
          /\ ~IsValid(n) =>
                /\ fnArg.Factories[n] = 0
                /\ \A g \in Registered(n) : fnResult[g].Err = "ProviderNotSupported"
          /\ (IsValid(n) /\ Registered(n) # {}) =>
                /\ \A g \in Registered(n) : fnResult[g].Err \in {"", "AlreadyExists"}
                /\ Cardinality({g \in Registered(n) : fnResult[g].Err = ""}) = 1
                /\ fnArg.Factories[n] \in Registered(n)
                /\ fnResult[fnArg.Factories[n]].Err = ""
    /\ \A g \in Goroutines :
          (fnResult[g].Op \in {"Get", "Create"} /\ fnResult[g].Err = "") =>
              /\ fnResult[g].Factory = fnArg.Factories[fnResult[g].Name]
              /\ \E i \in 1..Len(fnArg.Stores) :
                    fnArg.Stores[i] = <<fnResult[g].Name, fnResult[g].Factory>>

\* Two Register calls for one valid name have returned, one of them with
\* AlreadyExists, and the factory bound is the one of the other.
C29_Witness ==
    \E n \in RegistryNames :
        /\ Cardinality(Registered(n)) = 2
        /\ \E g \in Registered(n) :
              /\ fnResult[g].Err = "AlreadyExists"
              /\ fnArg.Factories[n] \notin {0, g}

\* ---------------------------------------------------------------------
\* RefreshToken of the three token generators.

\* time.Minute, in ticks of the clock.
Minute == 60 * TicksPerSecond

\* The remaining life below which RefreshToken mints anew.
\* (RefreshThreshold_Uniform: five minutes for every provider.)
RefreshThreshold_Uniform(provider) == 5 * Minute

RefreshThreshold(provider) ==
    IF provider = "aws" THEN 2 * Minute ELSE 5 * Minute

\* GenerateToken before it loads credentials: the aws and azure generators
\* refuse an empty cluster name, the gcp generator has no such test.
GenerateToken_Check(provider, opts) ==
    CASE provider = "azure" -> Azure_GenerateToken_Check(opts)
      [] provider = "aws" -> IF opts.ClusterName = <<>> THEN "InvalidArgument" ELSE "none"
      [] OTHER -> "none"

\* The expiries of the token RefreshToken is handed, around the clock and
\* around both thresholds.
CurrentExpiries(clock) ==
    {e \in {clock - 1, clock, clock + 1} \cup
           {clock + m * Minute + d : m \in {2, 5}, d \in {-1, 0, 1, 2}} : e >= 0}

\* A call: the provider, the options and the current token.
RefreshCalls ==
    UNION {{[Provider |-> p, Opts |-> [ClusterName |-> c, ProjectID |-> ""],
             Current |-> t, Start |-> clock] :
                p \in Providers, c \in {<<>>, <<99>>},
                t \in {NilToken} \cup {Token(<<116>>, e) : e \in CurrentExpiries(clock)}} :
           clock \in 0..MaxInstant}

InitRefresh ==
    /\ MintIdle
    /\ AwsIdle
    /\ LoaderIdle
    /\ fnPc = "RefreshToken"
    /\ fnArg \in RefreshCalls
    /\ fnResult = [Now |-> fnArg.Start, Ticks |-> 0, ReadAt |-> fnArg.Start, MintedAt |-> fnArg.Start,
                   Kept |-> FALSE,
                   Token |-> NilToken, Err |-> "none", IO |-> {}]

\* The clock advances while RefreshToken runs.
Refresh_Tick ==
    /\ fnPc # "returned"
    /\ fnResult.Ticks < MaxTicks
    /\ fnResult' = [fnResult EXCEPT !.Now = @ + 1, !.Ticks = @ + 1]
    /\ UNCHANGED <<fnPc, fnArg>>
    /\ UNCHANGED <<mintVars, awsVars, loaderVars>>

\* RefreshToken: currentToken != nil && !currentToken.IsExpired().
RefreshToken_IsExpired ==
    /\ fnPc = "RefreshToken"
    /\ fnResult' = [fnResult EXCEPT !.ReadAt = fnResult.Now]
    /\ fnPc' = IF fnArg.Current.nil \/ IsExpired(fnArg.Current, fnResult.Now)
               THEN "GenerateToken" ELSE "ExpiresIn"
    /\ UNCHANGED fnArg
    /\ UNCHANGED <<mintVars, awsVars, loaderVars>>

\* RefreshToken: currentToken.ExpiresIn() > threshold: return currentToken.
RefreshToken_ExpiresIn ==
    /\ fnPc = "ExpiresIn"
    /\ IF ExpiresIn(fnArg.Current, fnResult.Now) > RefreshThreshold(fnArg.Provider)
       THEN /\ fnResult' = [fnResult EXCEPT !.ReadAt = fnResult.Now, !.Kept = TRUE,
                                            !.Token = fnArg.Current]
            /\ fnPc' = "returned"
       ELSE /\ fnResult' = [fnResult EXCEPT !.ReadAt = fnResult.Now]
            /\ fnPc' = "GenerateToken"
    /\ UNCHANGED fnArg
    /\ UNCHANGED <<mintVars, awsVars, loaderVars>>

\* GenerateToken: the test of the options, then the credentials are loaded.
Refresh_GenerateToken ==
    /\ fnPc = "GenerateToken"
    /\ IF GenerateToken_Check(fnArg.Provider, fnArg.Opts) # "none"
       THEN /\ fnResult' = [fnResult EXCEPT !.Err = GenerateToken_Check(fnArg.Provider, fnArg.Opts)]
            /\ fnPc' = "returned"
       ELSE \E kind \in {"none"} \cup LoadFailures(fnArg.Provider) :
               /\ fnResult' = [fnResult EXCEPT !.IO = @ \cup {"credentials"}, !.Err = kind]
               /\ fnPc' = IF kind = "none" THEN "exchange" ELSE "returned"
    /\ UNCHANGED fnArg
    /\ UNCHANGED <<mintVars, awsVars, loaderVars>>

\* GenerateToken: the exchange with the cloud, or the SDK's presigning.
Refresh_Exchange ==
    /\ fnPc = "exchange"
    /\ \E r \in GenerateToken_Exchange(fnArg.Provider, fnArg.Opts, fnResult.Now) :
          fnResult' = [fnResult EXCEPT !.IO = @ \cup {"network"}, !.Err = r.err,
                                       !.Token = r.token, !.MintedAt = fnResult.Now]
    /\ fnPc' = "returned"
    /\ UNCHANGED fnArg
    /\ UNCHANGED <<mintVars, awsVars, loaderVars>>

NextRefresh ==
    \/ Refresh_Tick
    \/ RefreshToken_IsExpired
    \/ RefreshToken_ExpiresIn
    \/ Refresh_GenerateToken
    \/ Refresh_Exchange

SpecRefresh == InitRefresh /\ [][NextRefresh]_vars

\* The current token is there, has not expired and has more than the
\* provider's threshold left, at the instant RefreshToken last read the
\* clock for its decision.
StillFresh ==
    /\ ~fnArg.Current.nil
    /\ fnArg.Current.ExpiresAt >= fnResult.ReadAt
    /\ fnArg.Current.ExpiresAt - fnResult.ReadAt >
          (IF fnArg.Provider = "aws" THEN 2 ELSE 5) * 60 * TicksPerSecond

\* C30: RefreshToken returns the current token, with no credentials loaded
\* and no exchange made, exactly when that token is there, has not expired
\* and has more than the threshold left (5 minutes for gcp and azure, 2 for
\* aws); in every other case it goes through GenerateToken and returns what
\* that yields.
C30_RefreshKeepsOnlyAFreshToken ==
    /\ (fnPc = "returned" /\ fnResult.Kept) =>
          /\ StillFresh
          /\ fnResult.Token = fnArg.Current
          /\ fnResult.Err = "none"
          /\ fnResult.IO = {}
    /\ (fnPc = "returned" /\ ~fnResult.Kept) =>
          /\ ~StillFresh
          /\ \/ fnResult.Err = GenerateToken_Check(fnArg.Provider, fnArg.Opts) /\ fnResult.IO = {}
             \/ fnResult.Err \in LoadFailures(fnArg.Provider) /\ fnResult.IO = {"credentials"}
             \/ /\ fnResult.IO = {"credentials", "network"}
                /\ [err |-> fnResult.Err, token |-> fnResult.Token]
                      \in GenerateToken_Exchange(fnArg.Provider, fnArg.Opts, fnResult.MintedAt)
    /\ fnPc \in {"GenerateToken", "exchange"} => ~StillFresh

\* An AWS token with more than two and less than five minutes left was
\* returned as it was.
C30_Witness ==
    /\ fnPc = "returned"
    /\ fnResult.Kept
    /\ fnArg.Provider = "aws"
    /\ fnArg.Current.ExpiresAt - fnResult.ReadAt < 5 * 60 * TicksPerSecond
    /\ fnResult.Token = fnArg.Current

====
